---- MODULE Spec2Model ----
(***************************************************************************)
(* DCSAM: alternating discrete / continuous solve over hybrid factors.     *)
(*                                                                         *)
(* The controller (src/src/DCSAM.cpp) owns an incremental nonlinear        *)
(* optimizer isam_, an accumulated discrete graph dfg_ and the two cached  *)
(* estimates.  Every hybrid factor is split into a DCDiscreteFactor (in    *)
(* dfg_) and a DCContinuousFactor (in isam_).                              *)
(*                                                                         *)
(* Conventions of the model                                                *)
(*  - gtsam::Values / DiscreteValues are functions whose DOMAIN is the set *)
(*    of keys that have an entry.                                          *)
(*  - Continuous variables are scalars on the grid 0..MaxX.                *)
(*  - A factor value exp(-error) is kept as its base-2 logarithm, so a     *)
(*    product of factor values is a sum; prior weights are powers of two.  *)
(*  - dfg_ holds shared pointers: it is a sequence of addresses into heap. *)
(*  - An assertion that fails (build with asserts) or an exception that    *)
(*    leaves update ends the run (pc = "aborted" / "threw").               *)
(***************************************************************************)
EXTENDS Integers, Sequences, FiniteSets, TLC

\* ---- bounds -------------------------------------------------------------
MaxUpdates == 3
MaxX == 2
MaxGraph == 2
MaxComponents == 2

\* ---- keys and values ----------------------------------------------------
CKeys == {"x1", "x2"}
DKeys == {"d1", "d2"}
X == 0..MaxX

EmptyValues == [k \in {} |-> 0]

\* mutant: the estimate is replaced by the guess instead of merged with it
MergeValues_replaced(curr, guess) == guess

\* DCSAM::update, the two merge loops: update the entry if present, insert
\* it otherwise.
MergeValues(curr, guess) ==
  [k \in (DOMAIN curr) \cup (DOMAIN guess) |->
     IF k \in DOMAIN guess THEN guess[k] ELSE curr[k]]

Range(s) == {s[i] : i \in 1..Len(s)}

RECURSIVE SumSeq(_)
SumSeq(s) == IF s = <<>> THEN 0 ELSE Head(s) + SumSeq(Tail(s))

\* base-2 logarithm of a weight that is a power of two
Log2(w) == CASE w = 1 -> 0 [] w = 2 -> 1 [] w = 4 -> 2 [] w = 8 -> 3

\* ---- factors ------------------------------------------------------------
\* gtsam::PriorFactor<double> with an isotropic Gaussian noise model:
\* error(x) = info * (x - mu)^2 (the factor 1/2 is absorbed in info).
PriorError(f, cont) ==
  LET r == cont[f.key] - f.mu IN f.info * r * r

\* DCMixtureFactor::nonlinearFactorLogNormalizingConstant:
\* -(dim log(2 pi) / 2) - log(det(information)) / 2; the first term is the
\* same for every scalar component and is dropped, the second is taken in
\* base 2.
nonlinearFactorLogNormalizingConstant(f) == 0 - (Log2(f.info) \div 2)

\* DCMixtureFactor::error: the component selected by the assignment to dk_,
\* plus its log normalizing constant unless the mixture is normalized.
DCMixtureError(h, cont, disc) ==
  LET assignment == disc[h.dk]
      f == h.factors[assignment + 1]
      factorError == PriorError(f, cont)
  IN IF h.normalized THEN factorError
     ELSE factorError + nonlinearFactorLogNormalizingConstant(f)

\* DCMixtureFactor constructor: keys_ = keys, discreteKeys_ = <<dk>>.
DCMixtureFactor(key, dk, comps, normalized) ==
  [keys |-> <<key>>, dk |-> dk, card |-> Len(comps),
   factors |-> [i \in 1..Len(comps) |->
                  [key |-> key, mu |-> comps[i][1], info |-> comps[i][2]]],
   normalized |-> normalized]

\* ---- DCDiscreteFactor ---------------------------------------------------
\* DCDiscreteFactor(dcfactor): both frozen snapshots start empty.
NewDCDiscreteFactor(hid, h) ==
  [kind |-> "dcd", hid |-> hid, dcfactor |-> h,
   continuousVals |-> EmptyValues, discreteVals |-> EmptyValues]

\* mutant: the frozen values are replaced by those of the argument, so a key
\* the argument does not hold loses its frozen value
DCDiscrete_updateContinuous_replaced(s, continuousVals) ==
  [s EXCEPT !.continuousVals =
     [k \in Range(s.dcfactor.keys) \cap DOMAIN continuousVals |->
        continuousVals[k]]]

\* mutant: a key that already has a frozen value is not overwritten
DCDiscrete_updateContinuous_insertOnly(s, continuousVals) ==
  [s EXCEPT !.continuousVals =
     [k \in (DOMAIN s.continuousVals) \cup
            (Range(s.dcfactor.keys) \cap DOMAIN continuousVals) |->
        IF k \in DOMAIN s.continuousVals
        THEN s.continuousVals[k] ELSE continuousVals[k]]]

\* DCDiscreteFactor::updateContinuous: every continuous key of the hybrid
\* factor that continuousVals holds is overwritten or inserted.
DCDiscrete_updateContinuous(s, continuousVals) ==
  [s EXCEPT !.continuousVals =
     [k \in (DOMAIN s.continuousVals) \cup
            (Range(s.dcfactor.keys) \cap DOMAIN continuousVals) |->
        IF k \in Range(s.dcfactor.keys) /\ k \in DOMAIN continuousVals
        THEN continuousVals[k] ELSE s.continuousVals[k]]]

\* mutant: the new value is added to the frozen one instead of replacing it
DCDiscrete_updateDiscrete_added(s, discreteVals) ==
  [s EXCEPT !.discreteVals =
     [k \in (DOMAIN s.discreteVals) \cup
            ({s.dcfactor.dk} \cap DOMAIN discreteVals) |->
        IF k = s.dcfactor.dk /\ k \in DOMAIN discreteVals
        THEN IF k \in DOMAIN s.discreteVals
             THEN (s.discreteVals[k] + discreteVals[k]) % s.dcfactor.card
             ELSE discreteVals[k]
        ELSE s.discreteVals[k]]]

\* DCDiscreteFactor::updateDiscrete: the value of the hybrid factor's own
\* discrete key is overwritten or inserted when discreteVals holds it.
DCDiscrete_updateDiscrete(s, discreteVals) ==
  [s EXCEPT !.discreteVals =
     [k \in (DOMAIN s.discreteVals) \cup
            ({s.dcfactor.dk} \cap DOMAIN discreteVals) |->
        IF k = s.dcfactor.dk /\ k \in DOMAIN discreteVals
        THEN discreteVals[k] ELSE s.discreteVals[k]]]

DCDiscrete_allInitialized(s) ==
  /\ \A k \in Range(s.dcfactor.keys) : k \in DOMAIN s.continuousVals
  /\ s.dcfactor.dk \in DOMAIN s.discreteVals

\* ---- DCContinuousFactor -------------------------------------------------
NewDCContinuousFactor(hid, h) ==
  [kind |-> "dcc", hid |-> hid, dcfactor |-> h, discreteVals |-> EmptyValues]

\* mutant: every entry of the argument is stored, whatever its key
DCContinuous_updateDiscrete_all(s, discreteVals) ==
  [s EXCEPT !.discreteVals =
     [k \in (DOMAIN s.discreteVals) \cup (DOMAIN discreteVals) |->
        IF k \in DOMAIN discreteVals THEN discreteVals[k]
        ELSE s.discreteVals[k]]]

DCContinuous_updateDiscrete(s, discreteVals) ==
  [s EXCEPT !.discreteVals =
     [k \in (DOMAIN s.discreteVals) \cup
            ({s.dcfactor.dk} \cap DOMAIN discreteVals) |->
        IF k = s.dcfactor.dk /\ k \in DOMAIN discreteVals
        THEN discreteVals[k] ELSE s.discreteVals[k]]]

DCContinuous_allInitialized(s) == s.dcfactor.dk \in DOMAIN s.discreteVals

DCContinuous_error(s, cont) == DCMixtureError(s.dcfactor, cont, s.discreteVals)

\* ---- DiscretePriorFactor ------------------------------------------------
DiscretePriorFactor(dk, probs) == [kind |-> "prior", dk |-> dk, probs |-> probs]

VARIABLES
  ndebug,          \* TRUE: built with NDEBUG, assert() compiles to nothing
  pc,              \* position of the caller / of update
  nUpdates,        \* number of calls of update and of its helpers started
  heap,            \* discrete factor objects, addressed by 1..Len(heap)
  dfg_,            \* DCSAM::dfg_ : sequence of addresses into heap
  isam_,           \* DCSAM::isam_ : [factors, theta]
  currContinuous_, \* DCSAM::currContinuous_
  currDiscrete_,   \* DCSAM::currDiscrete_
  frame,           \* arguments and locals of the running update
  estimate,        \* value returned by the last calculateEstimate
  previous,        \* value returned by the calculateEstimate before that
  solved,          \* value returned by the last solveDiscrete call
  hfg,             \* a HybridFactorGraph in the caller's hands
  shadow,          \* a pair of shadows in the caller's hands
  mix,             \* a mixture factor in the caller's hands
  dgraph           \* a gtsam::DiscreteFactorGraph in the caller's hands

vars == <<ndebug, pc, nUpdates, heap, dfg_, isam_, currContinuous_,
          currDiscrete_, frame, estimate, previous, solved, hfg, shadow, mix,
          dgraph>>

\* the objects the caller holds besides the controller
caller == <<hfg, shadow, mix, dgraph>>

\* ---- discrete side: dfg_.optimize() --------------------------------------
\* cardinality of every discrete key (binary, as in the tests)
Card == 2

Null == [kind |-> "null"]

\* key of a discrete factor object: DiscretePriorFactor::dk_ or the discrete
\* key of the hybrid factor wrapped by a DCDiscreteFactor
DiscreteKeyOf(obj) == IF obj.kind = "prior" THEN obj.dk ELSE obj.dcfactor.dk

\* DCDiscreteFactor::operator(): exp(-error) of the hybrid factor at the
\* frozen continuous values and assignment a; kept as its base-2 logarithm.
DCDiscrete_value(s, a) ==
  0 - DCMixtureError(s.dcfactor, s.continuousVals, [k \in {s.dcfactor.dk} |-> a])

\* base-2 logarithm of the value of a discrete factor object at assignment a:
\* DiscretePriorFactor::operator() gives probs_[a].
LogValue(obj, a) ==
  IF obj.kind = "prior" THEN Log2(obj.probs[a + 1])
  ELSE DCDiscrete_value(obj, a)

\* base-2 logarithm of the product, at key k = a, of the factors that the
\* address sequence g points to
LogProduct(h, g, k, a) ==
  SumSeq([i \in 1..Len(g) |->
            IF DiscreteKeyOf(h[g[i]]) = k THEN LogValue(h[g[i]], a) ELSE 0])

\* mutant: a tie goes to the highest index among the maximisers
MostProbable_highest(h, g, k) ==
  CHOOSE a \in 0..(Card - 1) :
    /\ \A b \in 0..(Card - 1) : LogProduct(h, g, k, b) <= LogProduct(h, g, k, a)
    /\ \A b \in 0..(Card - 1) :
         LogProduct(h, g, k, b) = LogProduct(h, g, k, a) => b <= a

\* most probable value of key k: the lowest index among the maximisers
MostProbable(h, g, k) ==
  CHOOSE a \in 0..(Card - 1) :
    /\ \A b \in 0..(Card - 1) : LogProduct(h, g, k, b) <= LogProduct(h, g, k, a)
    /\ \A b \in 0..(Card - 1) :
         LogProduct(h, g, k, b) = LogProduct(h, g, k, a) => a <= b

\* gtsam::DiscreteFactorGraph::optimize over the factors g points to: an
\* assignment to every key of the graph (all factors are unary).
Optimize(h, g) ==
  [k \in {DiscreteKeyOf(h[g[i]]) : i \in 1..Len(g)} |-> MostProbable(h, g, k)]

\* mutant: the discrete solve is skipped, the estimate stays as it is
solveDiscrete_skipped(h, g) == currDiscrete_

\* DCSAM::solveDiscrete
solveDiscrete(h, g) == Optimize(h, g)

\* the DCDiscreteFactors in dfg_ whose assert(allInitialized()) would fail
Uninitialized(h, g) ==
  {i \in 1..Len(g) : h[g[i]].kind = "dcd" /\ ~DCDiscrete_allInitialized(h[g[i]])}

\* the DCDiscreteFactors in dfg_ whose evaluation reads a continuous key that
\* has no frozen value (gtsam::Values::at throws)
MissingContinuous(h, g) ==
  {i \in 1..Len(g) : /\ h[g[i]].kind = "dcd"
                     /\ \E k \in Range(h[g[i]].dcfactor.keys) :
                          k \notin DOMAIN h[g[i]].continuousVals}

\* DCSAM::updateDiscreteInfo: nothing at all when continuousVals is empty;
\* otherwise every DCDiscreteFactor that dfg_ points to is refreshed.
updateDiscreteInfo(h, g, continuousVals, discreteVals) ==
  IF DOMAIN continuousVals = {} THEN h
  ELSE [p \in 1..Len(h) |->
          IF h[p].kind = "dcd" /\ p \in Range(g)
          THEN DCDiscrete_updateDiscrete(
                 DCDiscrete_updateContinuous(h[p], continuousVals), discreteVals)
          ELSE h[p]]

\* ---- continuous side: gtsam::ISAM2 --------------------------------------
FactorKeys(f) ==
  CASE f.kind = "nl" -> {f.key}
    [] f.kind = "dcc" -> Range(f.dcfactor.keys)
    [] OTHER -> {}

FactorError(f, cont) ==
  CASE f.kind = "nl" -> PriorError(f, cont)
    [] f.kind = "dcc" -> DCContinuous_error(f, cont)
    [] OTHER -> 0

\* total error of the factors on key c when c = v
CostAt(factors, theta, c, v) ==
  SumSeq([i \in 1..Len(factors) |->
            IF c \in FactorKeys(factors[i])
            THEN FactorError(factors[i], [theta EXCEPT ![c] = v]) ELSE 0])

\* the optimizer's solution: every key that has a factor moves to the grid
\* value of least total error (lowest on a tie); a key without a factor keeps
\* its value.
ISAM2_solve(factors, theta) ==
  [c \in DOMAIN theta |->
     IF \A i \in 1..Len(factors) : c \notin FactorKeys(factors[i])
     THEN theta[c]
     ELSE CHOOSE v \in X :
            /\ \A w \in X : CostAt(factors, theta, c, v) <= CostAt(factors, theta, c, w)
            /\ \A w \in X : CostAt(factors, theta, c, w) = CostAt(factors, theta, c, v)
                              => v <= w]

\* removal of factor slots: a removed slot stays in the list as a null
ISAM2_remove(factors, removeFactorIndices) ==
  [i \in 1..Len(factors) |->
     IF (i - 1) \in Range(removeFactorIndices) THEN Null ELSE factors[i]]

\* the optimizer takes the new values into its own
ISAM2_insert(theta, newTheta) ==
  [k \in (DOMAIN theta) \cup (DOMAIN newTheta) |->
     IF k \in DOMAIN newTheta THEN newTheta[k] ELSE theta[k]]

\* isam_.update(newFactors, newTheta) followed by the solve that
\* calculateEstimate returns
ISAM2_update(isam, newFactors, newTheta) ==
  LET fs == isam.factors \o newFactors
  IN [factors |-> fs, theta |-> ISAM2_solve(fs, ISAM2_insert(isam.theta, newTheta))]

\* a new factor mentions a key that has no value: the optimizer throws
ISAM2_missingKey(isam, newFactors, newTheta) ==
  \E i \in 1..Len(newFactors) :
    \E k \in FactorKeys(newFactors[i]) :
      k \notin (DOMAIN isam.theta) \cup (DOMAIN newTheta)

\* ---- DCSAM --------------------------------------------------------------
\* DCSAM::updateDiscrete: append the given factors to dfg_, then refresh the
\* DCDiscreteFactors of dfg_.
updateDiscrete(h, g, dfg, continuousVals, discreteVals) ==
  [dfg |-> g \o dfg,
   heap |-> updateDiscreteInfo(h, g \o dfg, continuousVals, discreteVals)]

\* mutant: the factors already in the optimizer are not refreshed
RefreshContinuous_none(factors, discreteVals) == factors

\* DCSAM::updateContinuousInfo, the loop over isam_.getFactorsUnsafe(): every
\* DCContinuousFactor in the optimizer's list gets the discrete values.
RefreshContinuous(factors, discreteVals) ==
  [j \in 1..Len(factors) |->
     IF factors[j].kind = "dcc"
     THEN DCContinuous_updateDiscrete(factors[j], discreteVals)
     ELSE factors[j]]

\* mutant: every factor of the optimizer's list that has keys gets an entry
NewAffectedKeys_all(factors) ==
  [j \in {i - 1 : i \in {n \in 1..Len(factors) : factors[n].kind # "null"}} |->
     IF factors[j + 1].kind = "dcc" THEN Range(factors[j + 1].dcfactor.keys)
     ELSE {factors[j + 1].key}]

\* DCSAM::updateContinuousInfo, newAffectedKeys: factor index (from 0) of
\* every DCContinuousFactor in the optimizer's list -> its keys
NewAffectedKeys(factors) ==
  [j \in {i - 1 : i \in {n \in 1..Len(factors) : factors[n].kind = "dcc"}} |->
     Range(factors[j + 1].dcfactor.keys)]

\* mutant: the new DCContinuousFactors are added without updateDiscrete
Combined_unprimed(graph, dcfg, hids, discreteVals) ==
  graph \o [i \in 1..Len(dcfg) |-> NewDCContinuousFactor(hids[i], dcfg[i])]

\* DCSAM::update, second loop over dcfg: the new DCContinuousFactors, each
\* given the just-solved discrete values, behind the caller's factors.
Combined(graph, dcfg, hids, discreteVals) ==
  graph \o [i \in 1..Len(dcfg) |->
              DCContinuous_updateDiscrete(
                NewDCContinuousFactor(hids[i], dcfg[i]), discreteVals)]

\* ---- the calls the environment makes -------------------------------------
NoBatch ==
  [graph |-> <<>>, dfg |-> <<>>, dcfg |-> <<>>,
   initialGuessContinuous |-> EmptyValues,
   initialGuessDiscrete |-> EmptyValues,
   removeFactorIndices |-> <<>>]

\* no value returned since the last update began
NoEstimate ==
  [returned |-> FALSE, continuous |-> EmptyValues, discrete |-> EmptyValues]

\* no value returned by solveDiscrete since the last update began
NoSolve == [returned |-> FALSE, discrete |-> EmptyValues]

NoFrame ==
  [batch |-> NoBatch, hids |-> <<>>, discreteCombined |-> <<>>,
   combined |-> <<>>, newAffectedKeys |-> EmptyValues]

\* HybridFactorGraph(): three empty graphs.  call and before are the
\* caller's notes: the last member function called and size() before it.
NewHybridFactorGraph ==
  [nonlinearGraph_ |-> <<>>, discreteGraph_ |-> <<>>, dcGraph_ |-> <<>>,
   call |-> "HybridFactorGraph", before |-> 0]

\* the caller has made no shadow of its own.  call, arg and before are the
\* caller's notes: the last member function called, its argument and the two
\* shadows before it.
NoShadow ==
  [d |-> Null, c |-> Null, call |-> "none", arg |-> EmptyValues,
   before |-> [d |-> Null, c |-> Null]]

\* the caller has made no mixture factor of its own.  call, arg and result
\* are the caller's notes: the last member function called, its argument and
\* what it returned.
NoMixture ==
  [obj |-> [family |-> "none"], call |-> "none", arg |-> <<>>, result |-> <<>>]

\* nothing returned by a solve of the caller's discrete graph
NoResult == [optimize |-> EmptyValues, marginalProbabilities |-> EmptyValues]

\* gtsam::DiscreteFactorGraph(): no factor.  call, arg, result and before are
\* the caller's notes: the last function called, its argument, what it
\* returned, and what the solve before an updateProbs had returned.
NewDiscreteFactorGraph ==
  [factors |-> <<>>, call |-> "DiscreteFactorGraph", arg |-> <<>>,
   result |-> NoResult, before |-> NoResult]

\* a continuous prior at 0 on key c
NLPrior(c) == [kind |-> "nl", key |-> c, mu |-> 0, info |-> 1]

\* the mixtures of the tests: a narrow and a broad component at the same
\* mean, and the same pair with the broad component at the far end
Mixtures ==
  {DCMixtureFactor(kd[1], kd[2], comps, FALSE) :
     kd \in {<<"x1", "d1">>, <<"x2", "d2">>},
     comps \in {<< <<0, 4>>, <<0, 1>> >>, << <<0, 4>>, <<MaxX, 1>> >>}}

PriorProbs == {<<4, 1>>, <<1, 8>>}

\* an initial guess for key k when wanted, none otherwise
Guess(wanted, k, v) == IF wanted THEN [j \in {k} |-> v] ELSE EmptyValues

\* what comes with a new mixture: <<continuous guess, discrete guess, prior>>
Variants ==
  {<<TRUE, FALSE, FALSE>>, <<TRUE, TRUE, FALSE>>,
   <<FALSE, TRUE, FALSE>>, <<TRUE, FALSE, TRUE>>}

\* the argument lists of update that the environment tries: update(), the
\* removal of one optimizer slot, one continuous factor, one discrete prior,
\* one mixture (alone or with a prior on its discrete key), with or without
\* initial guesses.  A continuous guess is only given for a key the
\* optimizer does not hold yet.
Batches ==
  {NoBatch}
  \cup {[NoBatch EXCEPT !.removeFactorIndices = <<j>>] :
          j \in 0..(Len(isam_.factors) - 1)}
  \cup {[NoBatch EXCEPT !.graph = <<NLPrior(c)>>,
                        !.initialGuessContinuous =
                           Guess(c \notin DOMAIN isam_.theta, c, MaxX)] :
          c \in CKeys}
  \cup {[NoBatch EXCEPT !.dfg = <<DiscretePriorFactor("d1", p)>>] :
          p \in PriorProbs}
  \cup {[NoBatch EXCEPT
           !.dcfg = <<mv[1]>>,
           !.dfg = IF mv[2][3]
                   THEN <<DiscretePriorFactor(mv[1].dk, <<2, 1>>)>> ELSE <<>>,
           !.initialGuessContinuous =
              Guess(mv[2][1] /\ mv[1].keys[1] \notin DOMAIN isam_.theta,
                    mv[1].keys[1], MaxX),
           !.initialGuessDiscrete = Guess(mv[2][2], mv[1].dk, 1)] :
          mv \in Mixtures \X Variants}

Init ==
  /\ ndebug \in BOOLEAN
  /\ pc = "idle"
  /\ nUpdates = 0
  /\ heap = <<>>
  /\ dfg_ = <<>>
  /\ isam_ = [factors |-> <<>>, theta |-> EmptyValues]
  /\ currContinuous_ = EmptyValues
  /\ currDiscrete_ = EmptyValues
  /\ frame = NoFrame
  /\ estimate = NoEstimate
  /\ previous = NoEstimate
  /\ solved = NoSolve
  /\ hfg = NewHybridFactorGraph
  /\ shadow = NoShadow
  /\ mix = NoMixture
  /\ dgraph = NewDiscreteFactorGraph

\* DCSAM::update up to and including the first updateDiscrete
\* (DCSAM.cpp lines 29-77).
UpdateBegin(b) ==
  /\ pc = "idle"
  /\ nUpdates < MaxUpdates
  /\ LET removed == ISAM2_remove(isam_.factors, b.removeFactorIndices)
         cc == MergeValues(currContinuous_, b.initialGuessContinuous)
         cd == MergeValues(currDiscrete_, b.initialGuessDiscrete)
         nPri == Len(b.dfg)
         nDc == Len(b.dcfg)
         nShadows == Cardinality({p \in 1..Len(heap) : heap[p].kind = "dcd"})
         hids == [i \in 1..nDc |-> nShadows + i]
         newObjs == [i \in 1..(nPri + nDc) |->
                       IF i <= nPri THEN b.dfg[i]
                       ELSE NewDCDiscreteFactor(hids[i - nPri], b.dcfg[i - nPri])]
         discreteCombined == [i \in 1..(nPri + nDc) |-> Len(heap) + i]
         r == updateDiscrete(heap \o newObjs, dfg_, discreteCombined, cc, cd)
     IN /\ isam_' = [factors |-> removed,
                     theta |-> ISAM2_solve(removed, isam_.theta)]
        /\ currContinuous_' = cc
        /\ currDiscrete_' = cd
        /\ heap' = r.heap
        /\ dfg_' = r.dfg
        /\ frame' = [NoFrame EXCEPT !.batch = b, !.hids = hids,
                                    !.discreteCombined = discreteCombined]
  /\ pc' = "solveDiscrete"
  /\ nUpdates' = nUpdates + 1
  /\ estimate' = NoEstimate
  /\ previous' = NoEstimate
  /\ solved' = NoSolve
  /\ UNCHANGED <<ndebug, caller>>

\* currDiscrete_ = solveDiscrete() (DCSAM.cpp line 80).  Every factor of dfg_
\* is multiplied into the product: with asserts on, an uninitialized
\* DCDiscreteFactor aborts; without them a missing continuous value throws.
UpdateSolve ==
  /\ pc = "solveDiscrete"
  /\ IF ~ndebug /\ Uninitialized(heap, dfg_) # {}
     THEN pc' = "aborted" /\ UNCHANGED currDiscrete_
     ELSE IF MissingContinuous(heap, dfg_) # {}
     THEN pc' = "threw" /\ UNCHANGED currDiscrete_
     ELSE /\ currDiscrete_' = solveDiscrete(heap, dfg_)
          /\ pc' = "primeContinuous"
  /\ UNCHANGED <<ndebug, nUpdates, heap, dfg_, isam_, currContinuous_, frame,
                 estimate, previous, solved, caller>>

\* The loop that builds the new DCContinuousFactors and the refresh loop of
\* updateContinuousInfo (DCSAM.cpp lines 82-88 and 159-173).
UpdatePrime ==
  /\ pc = "primeContinuous"
  /\ LET fs == RefreshContinuous(isam_.factors, currDiscrete_)
     IN /\ isam_' = [isam_ EXCEPT !.factors = fs]
        /\ frame' = [frame EXCEPT
                       !.combined = Combined(frame.batch.graph, frame.batch.dcfg,
                                             frame.hids, currDiscrete_),
                       !.newAffectedKeys = NewAffectedKeys(fs)]
  /\ pc' = "isamUpdate"
  /\ UNCHANGED <<ndebug, nUpdates, heap, dfg_, currContinuous_, currDiscrete_,
                 estimate, previous, solved, caller>>

\* isam_.update(newFactors, initialGuess, updateParams), then
\* currContinuous_ = isam_.calculateEstimate() and the second updateDiscrete
\* (DCSAM.cpp lines 175 and 93-95).  A DCContinuousFactor without its frozen
\* discrete value fails its assert, or without asserts throws from
\* discreteVals.at(); a factor on a key without a value makes the optimizer
\* throw.
UpdateIsam ==
  /\ pc = "isamUpdate"
  /\ LET guess == frame.batch.initialGuessContinuous
         all == isam_.factors \o frame.combined
     IN IF ~ndebug /\ \E i \in 1..Len(all) :
                        all[i].kind = "dcc" /\ ~DCContinuous_allInitialized(all[i])
        THEN pc' = "aborted"
             /\ UNCHANGED <<heap, dfg_, isam_, currContinuous_, frame>>
        ELSE IF \/ ISAM2_missingKey(isam_, frame.combined, guess)
                \/ \E i \in 1..Len(all) :
                     all[i].kind = "dcc" /\ ~DCContinuous_allInitialized(all[i])
        THEN pc' = "threw"
             /\ UNCHANGED <<heap, dfg_, isam_, currContinuous_, frame>>
        ELSE LET isam2 == ISAM2_update(isam_, frame.combined, guess)
                 r == updateDiscrete(heap, dfg_, frame.discreteCombined,
                                     isam2.theta, currDiscrete_)
             IN /\ isam_' = isam2
                /\ currContinuous_' = isam2.theta
                /\ heap' = r.heap
                /\ dfg_' = r.dfg
                /\ frame' = NoFrame
                /\ pc' = "idle"
  /\ UNCHANGED <<ndebug, nUpdates, currDiscrete_, estimate, previous, solved,
                 caller>>

\* mutant: the cached estimates are returned instead of the solvers' answers
calculateEstimate_cached(h, g, isam) ==
  [returned |-> TRUE, continuous |-> currContinuous_, discrete |-> currDiscrete_]

\* DCSAM::calculateEstimate, the value returned: the optimizer's estimate
\* and dfg_.optimize()
calculateEstimate(h, g, isam) ==
  [returned |-> TRUE, continuous |-> isam.theta, discrete |-> Optimize(h, g)]

\* A call of DCSAM::calculateEstimate between two updates.  The caller makes
\* at most two of them, the second one after a call of solveDiscrete.
CalculateEstimate ==
  /\ pc = "idle"
  /\ ~previous.returned
  /\ estimate.returned => solved.returned
  /\ IF ~ndebug /\ Uninitialized(heap, dfg_) # {}
     THEN pc' = "aborted" /\ UNCHANGED <<estimate, previous>>
     ELSE IF MissingContinuous(heap, dfg_) # {}
     THEN pc' = "threw" /\ UNCHANGED <<estimate, previous>>
     ELSE /\ estimate' = calculateEstimate(heap, dfg_, isam_)
          /\ previous' = estimate
          /\ pc' = "idle"
  /\ UNCHANGED <<ndebug, nUpdates, heap, dfg_, isam_, currContinuous_,
                 currDiscrete_, frame, solved, caller>>

\* A call of DCSAM::solveDiscrete by the caller, after a calculateEstimate.
SolveDiscrete ==
  /\ pc = "idle"
  /\ estimate.returned
  /\ ~solved.returned
  /\ IF ~ndebug /\ Uninitialized(heap, dfg_) # {}
     THEN pc' = "aborted" /\ UNCHANGED solved
     ELSE IF MissingContinuous(heap, dfg_) # {}
     THEN pc' = "threw" /\ UNCHANGED solved
     ELSE /\ solved' = [returned |-> TRUE, discrete |-> solveDiscrete(heap, dfg_)]
          /\ pc' = "idle"
  /\ UNCHANGED <<ndebug, nUpdates, heap, dfg_, isam_, currContinuous_,
                 currDiscrete_, frame, estimate, previous, caller>>

Update == \E b \in Batches : UpdateBegin(b)

\* the arguments of the caller's own calls of the four public helpers of
\* update: no factor or one discrete prior, no value or one value
DirectGraphs == {<<>>, <<DiscretePriorFactor("d1", <<4, 1>>)>>}

DirectContinuous == {EmptyValues} \cup {[k \in {"x1"} |-> v] : v \in {0, 1}}

DirectDiscrete == {EmptyValues, [k \in {"d1"} |-> 0]}

\* a call of one of the helpers has begun: nUpdates counts it, and what
\* calculateEstimate and solveDiscrete returned before it is forgotten
DirectCall ==
  /\ pc = "idle"
  /\ nUpdates < MaxUpdates
  /\ nUpdates' = nUpdates + 1
  /\ estimate' = NoEstimate
  /\ previous' = NoEstimate
  /\ solved' = NoSolve

\* A call of DCSAM::updateDiscrete(dfg, continuousVals, discreteVals) by the
\* caller: currContinuous_ and currDiscrete_ are not touched.
CallUpdateDiscrete ==
  /\ DirectCall
  /\ \E dfg \in DirectGraphs :
       \E continuousVals \in DirectContinuous, discreteVals \in DirectDiscrete :
         LET r == updateDiscrete(heap \o dfg, dfg_,
                                 [i \in 1..Len(dfg) |-> Len(heap) + i],
                                 continuousVals, discreteVals)
         IN heap' = r.heap /\ dfg_' = r.dfg
  /\ UNCHANGED <<ndebug, pc, isam_, currContinuous_, currDiscrete_, frame,
                 caller>>

\* A call of DCSAM::updateDiscreteInfo(continuousVals, discreteVals) by the
\* caller.
CallUpdateDiscreteInfo ==
  /\ DirectCall
  /\ \E continuousVals \in DirectContinuous, discreteVals \in DirectDiscrete :
       heap' = updateDiscreteInfo(heap, dfg_, continuousVals, discreteVals)
  /\ UNCHANGED <<ndebug, pc, dfg_, isam_, currContinuous_, currDiscrete_,
                 frame, caller>>

\* what isam_.update does with the factors all: a DCContinuousFactor without
\* its frozen discrete value fails its assert, or without asserts throws
\* from discreteVals.at(); a key without a value makes the optimizer throw
IsamOutcome(all, missingKey) ==
  LET uninitialized == \E i \in 1..Len(all) :
                         /\ all[i].kind = "dcc"
                         /\ ~DCContinuous_allInitialized(all[i])
  IN IF ~ndebug /\ uninitialized THEN "aborted"
     ELSE IF missingKey \/ uninitialized THEN "threw"
     ELSE "idle"

\* A call of DCSAM::updateContinuous() by the caller: isam_.update();
\* currContinuous_ = isam_.calculateEstimate().  dfg_ is not refreshed.
CallUpdateContinuous ==
  /\ DirectCall
  /\ pc' = IsamOutcome(isam_.factors, FALSE)
  /\ IF pc' = "idle"
     THEN /\ isam_' = ISAM2_update(isam_, <<>>, EmptyValues)
          /\ currContinuous_' = isam_'.theta
     ELSE UNCHANGED <<isam_, currContinuous_>>
  /\ UNCHANGED <<ndebug, heap, dfg_, currDiscrete_, frame, caller>>

\* A call of DCSAM::updateContinuousInfo(discreteVals, newFactors,
\* initialGuess) by the caller, without new factors: the shadows of the
\* optimizer are given discreteVals and the optimizer is updated;
\* currContinuous_ and currDiscrete_ are not touched.
CallUpdateContinuousInfo ==
  /\ DirectCall
  /\ \E discreteVals \in DirectDiscrete :
       LET fs == RefreshContinuous(isam_.factors, discreteVals)
       IN /\ pc' = IsamOutcome(fs, FALSE)
          /\ isam_' = IF pc' = "idle"
                      THEN ISAM2_update([isam_ EXCEPT !.factors = fs], <<>>,
                                        EmptyValues)
                      ELSE [isam_ EXCEPT !.factors = fs]
  /\ UNCHANGED <<ndebug, heap, dfg_, currContinuous_, currDiscrete_, frame,
                 caller>>

\* a call of one of the four helpers by the caller
Direct ==
  \/ CallUpdateDiscrete
  \/ CallUpdateDiscreteInfo
  \/ CallUpdateContinuous
  \/ CallUpdateContinuousInfo

Next ==
  \/ Update
  \/ UpdateSolve
  \/ UpdatePrime
  \/ UpdateIsam
  \/ CalculateEstimate
  \/ SolveDiscrete
  \/ CallUpdateDiscrete
  \/ CallUpdateDiscreteInfo
  \/ CallUpdateContinuous
  \/ CallUpdateContinuousInfo

Spec == Init /\ [][Next]_vars

\* ---- helpers for the properties ------------------------------------------
\* the DCDiscreteFactors of dfg_, in index order, and the DCContinuousFactors
\* of the optimizer's factor list, in index order
DiscreteShadows == SelectSeq([i \in 1..Len(dfg_) |-> heap[dfg_[i]]],
                             LAMBDA o : o.kind = "dcd")

ContinuousShadows == SelectSeq(isam_.factors, LAMBDA f : f.kind = "dcc")

\* the factors the optimizer holds once the pending call is made
SubmittedFactors == isam_.factors \o frame.combined

\* every discrete factor object handed to the controller, once each
EachOnce == [i \in 1..Len(heap) |-> i]

\* the running update was given continuous factors and continuous values only
PureOdometry(b) ==
  /\ b.graph # <<>>
  /\ b.dfg = <<>>
  /\ b.dcfg = <<>>
  /\ DOMAIN b.initialGuessDiscrete = {}
  /\ b.removeFactorIndices = <<>>

\* C1: whenever a discrete solve evaluates the discrete shadows (line 80 of
\* update, solveDiscrete, calculateEstimate) and every continuous key of every
\* hybrid factor has a continuous value, each discrete shadow is fully
\* initialized, so the assert in operator* does not fail.
C1_DiscreteShadowsInitializedAtSolve ==
  (/\ pc \in {"solveDiscrete", "idle"}
   /\ \A i \in 1..Len(dfg_) :
        heap[dfg_[i]].kind = "dcd" =>
          Range(heap[dfg_[i]].dcfactor.keys) \subseteq DOMAIN currContinuous_)
  => Uninitialized(heap, dfg_) = {}

\* C2: when update submits the new factors to the optimizer, every
\* DCContinuousFactor the optimizer will hold, the new ones included, has a
\* frozen value for the discrete key of its hybrid factor.
C2_ContinuousShadowsInitialized ==
  pc = "isamUpdate" =>
    \A i \in 1..Len(SubmittedFactors) :
      SubmittedFactors[i].kind = "dcc" =>
        DCContinuous_allInitialized(SubmittedFactors[i])

\* C2 witness: a new continuous shadow is about to be submitted by an update
\* that was given no discrete initial guess.
C2_Witness ==
  /\ pc = "isamUpdate"
  /\ \E i \in 1..Len(frame.combined) : frame.combined[i].kind = "dcc"
  /\ DOMAIN frame.batch.initialGuessDiscrete = {}

\* C3: after update returns, the accumulated discrete graph has exactly one
\* entry per discrete factor object handed over (k + m per call), and every
\* hybrid factor has exactly one discrete shadow entry in dfg_ and one
\* continuous shadow entry in the optimizer's list.
C3_OneEntryPerFactor ==
  pc = "idle" =>
    /\ Len(dfg_) = Len(heap)
    /\ \A p \in 1..Len(heap) :
         heap[p].kind = "dcd" =>
           /\ Cardinality({i \in 1..Len(dfg_) : dfg_[i] = p}) = 1
           /\ Cardinality({j \in 1..Len(isam_.factors) :
                             /\ isam_.factors[j].kind = "dcc"
                             /\ isam_.factors[j].hid = heap[p].hid}) = 1

\* C4: after update returns (no optimizer slot removed), the i-th discrete
\* shadow of dfg_ and the i-th continuous shadow of the optimizer's list wrap
\* the same hybrid factor handle.
C4_ShadowListsAligned ==
  (/\ pc = "idle"
   /\ \A j \in 1..Len(isam_.factors) : isam_.factors[j].kind # "null")
  => \A i \in 1..Len(DiscreteShadows) :
       i <= Len(ContinuousShadows) =>
         DiscreteShadows[i].hid = ContinuousShadows[i].hid

\* C5: the discrete estimate stored by update is the most probable assignment
\* of the product in which every discrete factor and every discrete shadow
\* handed over so far counts exactly once, and the values frozen into the
\* continuous shadows are that assignment.
C5_EstimateIsMapOfEachFactorOnce ==
  pc = "isamUpdate" =>
    /\ currDiscrete_ = Optimize(heap, EachOnce)
    /\ \A i \in 1..Len(SubmittedFactors) :
         SubmittedFactors[i].kind = "dcc" =>
           SubmittedFactors[i].discreteVals[SubmittedFactors[i].dcfactor.dk]
             = Optimize(heap, EachOnce)[SubmittedFactors[i].dcfactor.dk]

\* C6: when the optimizer's incremental update is invoked, the discrete solve
\* of this call has been done (the current discrete estimate is the solution
\* of dfg_) and every continuous shadow, old or new, holds the current
\* discrete estimate on the discrete key of its hybrid factor.
C6_SolveThenRefreshThenOptimize ==
  pc = "isamUpdate" =>
    /\ currDiscrete_ = solveDiscrete(heap, dfg_)
    /\ \A i \in 1..Len(SubmittedFactors) :
         SubmittedFactors[i].kind = "dcc" =>
           LET f == SubmittedFactors[i] IN
             /\ f.dcfactor.dk \in DOMAIN f.discreteVals
             /\ f.dcfactor.dk \in DOMAIN currDiscrete_
             /\ f.discreteVals[f.dcfactor.dk] = currDiscrete_[f.dcfactor.dk]

\* C6 witness: the optimizer is about to run with an old and a new continuous
\* shadow, and the discrete solve of this call has moved the estimate away
\* from the value the caller guessed.
C6_Witness ==
  /\ pc = "isamUpdate"
  /\ \E j \in 1..Len(isam_.factors) : isam_.factors[j].kind = "dcc"
  /\ \E i \in 1..Len(frame.combined) : frame.combined[i].kind = "dcc"
  /\ \E k \in DOMAIN frame.batch.initialGuessDiscrete :
       currDiscrete_[k] # frame.batch.initialGuessDiscrete[k]

\* every discrete shadow of dfg_ holds the optimizer's continuous estimate,
\* which is also the cached one, on every continuous key of its hybrid factor
C7_ShadowsHoldEstimate ==
  /\ currContinuous_ = isam_.theta
  /\ \A i \in 1..Len(dfg_) :
       heap[dfg_[i]].kind = "dcd" =>
         \A k \in Range(heap[dfg_[i]].dcfactor.keys) :
           /\ k \in DOMAIN heap[dfg_[i]].continuousVals
           /\ k \in DOMAIN isam_.theta
           /\ heap[dfg_[i]].continuousVals[k] = isam_.theta[k]

\* C7: when update returns, every discrete shadow of dfg_ holds the
\* optimizer's new continuous estimate, which is also the cached one, on
\* every continuous key of its hybrid factor, and a calculateEstimate or
\* solveDiscrete that follows leaves it so.
C7_DiscreteShadowsHoldNewEstimate ==
  [][/\ (pc = "isamUpdate" /\ pc' = "idle") => C7_ShadowsHoldEstimate'
     /\ (pc = "idle" /\ pc' = "idle" /\ nUpdates' = nUpdates
           /\ C7_ShadowsHoldEstimate) => C7_ShadowsHoldEstimate']_vars

\* C7 witness: update has returned and a discrete shadow holds a continuous
\* value that the optimizer moved away from the caller's guess MaxX.
C7_Witness ==
  /\ pc = "idle"
  /\ C7_ShadowsHoldEstimate
  /\ \E i \in 1..Len(dfg_) :
       /\ heap[dfg_[i]].kind = "dcd"
       /\ \E k \in DOMAIN heap[dfg_[i]].continuousVals :
            heap[dfg_[i]].continuousVals[k] # MaxX

\* C8: right after a sync of the discrete shadows (the updateDiscrete calls of
\* update, lines 77 and 95), every discrete shadow of dfg_ agrees with the
\* current continuous estimate and with the current discrete estimate on each
\* of its hybrid factor's keys that the estimate holds, whatever the estimates
\* are (an empty continuous estimate included).
C8_SyncRefreshesEveryShadow ==
  pc \in {"solveDiscrete", "idle"} =>
    \A i \in 1..Len(dfg_) :
      heap[dfg_[i]].kind = "dcd" =>
        LET s == heap[dfg_[i]] IN
          /\ \A k \in Range(s.dcfactor.keys) \cap DOMAIN currContinuous_ :
               /\ k \in DOMAIN s.continuousVals
               /\ s.continuousVals[k] = currContinuous_[k]
          /\ s.dcfactor.dk \in DOMAIN currDiscrete_ =>
               /\ s.dcfactor.dk \in DOMAIN s.discreteVals
               /\ s.discreteVals[s.dcfactor.dk] = currDiscrete_[s.dcfactor.dk]

\* a step of an update that is a pure odometry step
PureOdometryStep ==
  \/ pc = "idle" /\ pc' = "solveDiscrete" /\ PureOdometry(frame'.batch)
  \/ pc # "idle" /\ PureOdometry(frame.batch)

\* C9 as claimed: an update that adds only continuous factors and continuous
\* initial values skips the discrete solve, so no step of it changes the
\* current discrete estimate.
C9_PureOdometryKeepsDiscreteEstimate ==
  [][PureOdometryStep => currDiscrete_' = currDiscrete_]_vars

\* C9 amended: a pure odometry update appends nothing to the accumulated
\* discrete graph and still runs the discrete solve: the step at line 80 sets
\* the current discrete estimate to the most probable assignment of dfg_, and
\* no other step of the call changes the estimate.
C9_PureOdometryStillSolves ==
  [][PureOdometryStep =>
       /\ dfg_' = dfg_
       /\ IF pc = "solveDiscrete" /\ pc' = "primeContinuous"
          THEN currDiscrete_' = Optimize(heap, dfg_)
          ELSE currDiscrete_' = currDiscrete_]_vars

\* C9 witness: the discrete solve of a pure odometry update has changed the
\* estimate: a continuous shadow still holds the previous value.
C9_Witness ==
  /\ pc = "primeContinuous"
  /\ PureOdometry(frame.batch)
  /\ \E j \in 1..Len(isam_.factors) :
       /\ isam_.factors[j].kind = "dcc"
       /\ isam_.factors[j].discreteVals[isam_.factors[j].dcfactor.dk]
            # currDiscrete_[isam_.factors[j].dcfactor.dk]

\* the controller is converged: all shadows hold the current estimates, the
\* discrete estimate is the discrete solve for the continuous estimate and the
\* continuous estimate is the optimizer's solution for the discrete one
Converged ==
  /\ Uninitialized(heap, dfg_) = {}
  /\ heap = updateDiscreteInfo(heap, dfg_, currContinuous_, currDiscrete_)
  /\ isam_.factors = RefreshContinuous(isam_.factors, currDiscrete_)
  /\ currDiscrete_ = Optimize(heap, dfg_)
  /\ currContinuous_ = isam_.theta
  /\ isam_.theta = ISAM2_solve(isam_.factors, isam_.theta)

\* a step of update() with no arguments
EmptyUpdateStep ==
  \/ pc = "idle" /\ pc' = "solveDiscrete" /\ frame'.batch = NoBatch
  \/ pc \in {"solveDiscrete", "primeContinuous", "isamUpdate"}
     /\ frame.batch = NoBatch

\* C10: update() is valid, and from a converged state no step of it changes
\* the two estimates, the accumulated discrete graph or the optimizer's
\* factors (so the state is converged again at every step and on return).
C10_EmptyUpdateAtFixpoint ==
  [][(EmptyUpdateStep /\ Converged) =>
       /\ pc' \notin {"aborted", "threw"}
       /\ currDiscrete_' = currDiscrete_
       /\ currContinuous_' = currContinuous_
       /\ dfg_' = dfg_
       /\ heap' = heap
       /\ isam_' = isam_]_vars

\* C10 witness: update() is running from a converged state that has a hybrid
\* factor on both sides and is about to call the optimizer.
C10_Witness ==
  /\ pc = "isamUpdate"
  /\ frame.batch = NoBatch
  /\ Converged
  /\ \E i \in 1..Len(dfg_) : heap[dfg_[i]].kind = "dcd"
  /\ \E j \in 1..Len(isam_.factors) : isam_.factors[j].kind = "dcc"

\* a call of calculateEstimate or of solveDiscrete that returned
ObserveStep == pc = "idle" /\ pc' = "idle" /\ nUpdates' = nUpdates

\* ---- HybridFactorGraph -----------------------------------------------------
size_nonlinear(g) == Len(g.nonlinearGraph_)

size_discrete(g) == Len(g.discreteGraph_)

size_dc(g) == Len(g.dcGraph_)

size(g) == Len(g.nonlinearGraph_) + Len(g.discreteGraph_) + Len(g.dcGraph_)

empty(g) ==
  g.nonlinearGraph_ = <<>> /\ g.discreteGraph_ = <<>> /\ g.dcGraph_ = <<>>

push_nonlinear(g, nonlinearFactor) ==
  [g EXCEPT !.nonlinearGraph_ = Append(@, nonlinearFactor)]

push_discrete(g, discreteFactor) ==
  [g EXCEPT !.discreteGraph_ = Append(@, discreteFactor)]

push_dc(g, dcFactor) == [g EXCEPT !.dcGraph_ = Append(@, dcFactor)]

\* mutant: the hybrid factors survive clear
clear_keepsDC(g) ==
  [g EXCEPT !.nonlinearGraph_ = <<>>, !.discreteGraph_ = <<>>]

\* HybridFactorGraph::clear: resize(0) on each of the three graphs
clear(g) ==
  [g EXCEPT !.nonlinearGraph_ = <<>>, !.discreteGraph_ = <<>>,
            !.dcGraph_ = <<>>]

\* the controller and the caller's other objects are not touched
HFGFrame ==
  UNCHANGED <<ndebug, pc, nUpdates, heap, dfg_, isam_, currContinuous_,
              currDiscrete_, frame, estimate, previous, solved, shadow, mix,
              dgraph>>

HFGPushNonlinear ==
  /\ size_nonlinear(hfg) < MaxGraph
  /\ \E c \in CKeys :
       hfg' = [push_nonlinear(hfg, NLPrior(c)) EXCEPT
                 !.call = "push_nonlinear", !.before = size(hfg)]
  /\ HFGFrame

HFGPushDiscrete ==
  /\ size_discrete(hfg) < MaxGraph
  /\ \E p \in PriorProbs :
       hfg' = [push_discrete(hfg, DiscretePriorFactor("d1", p)) EXCEPT
                 !.call = "push_discrete", !.before = size(hfg)]
  /\ HFGFrame

HFGPushDC ==
  /\ size_dc(hfg) < MaxGraph
  /\ \E h \in Mixtures :
       hfg' = [push_dc(hfg, h) EXCEPT !.call = "push_dc", !.before = size(hfg)]
  /\ HFGFrame

HFGClear ==
  /\ hfg' = [clear(hfg) EXCEPT !.call = "clear", !.before = size(hfg)]
  /\ HFGFrame

NextHFG ==
  \/ HFGPushNonlinear
  \/ HFGPushDiscrete
  \/ HFGPushDC
  \/ HFGClear

SpecHFG == Init /\ [][NextHFG]_vars

\* ---- the shadows on their own ----------------------------------------------
\* the argument of updateDiscrete / updateContinuous: values for any subset
\* of the keys
Snapshots(keys, values) ==
  UNION {[ks -> values] : ks \in SUBSET keys}

\* the controller and the caller's other objects are not touched
ShadowFrame ==
  UNCHANGED <<ndebug, pc, nUpdates, heap, dfg_, isam_, currContinuous_,
              currDiscrete_, frame, estimate, previous, solved, hfg, mix,
              dgraph>>

\* DCDiscreteFactor(dcfactor) and DCContinuousFactor(dcfactor) on one hybrid
\* factor, as in the two loops of DCSAM::update
ShadowConstruct ==
  /\ shadow.call = "none"
  /\ \E h \in Mixtures :
       shadow' = [d |-> NewDCDiscreteFactor(1, h),
                  c |-> NewDCContinuousFactor(1, h),
                  call |-> "construct", arg |-> EmptyValues,
                  before |-> [d |-> shadow.d, c |-> shadow.c]]
  /\ ShadowFrame

ShadowContinuousUpdateDiscrete ==
  /\ shadow.call # "none"
  /\ \E discreteVals \in Snapshots(DKeys, 0..(Card - 1)) :
       shadow' = [shadow EXCEPT
                    !.c = DCContinuous_updateDiscrete(shadow.c, discreteVals),
                    !.call = "DCContinuousFactor::updateDiscrete",
                    !.arg = discreteVals,
                    !.before = [d |-> shadow.d, c |-> shadow.c]]
  /\ ShadowFrame

ShadowDiscreteUpdateDiscrete ==
  /\ shadow.call # "none"
  /\ \E discreteVals \in Snapshots(DKeys, 0..(Card - 1)) :
       shadow' = [shadow EXCEPT
                    !.d = DCDiscrete_updateDiscrete(shadow.d, discreteVals),
                    !.call = "DCDiscreteFactor::updateDiscrete",
                    !.arg = discreteVals,
                    !.before = [d |-> shadow.d, c |-> shadow.c]]
  /\ ShadowFrame

ShadowDiscreteUpdateContinuous ==
  /\ shadow.call # "none"
  /\ \E continuousVals \in Snapshots(CKeys, X) :
       shadow' = [shadow EXCEPT
                    !.d = DCDiscrete_updateContinuous(shadow.d, continuousVals),
                    !.call = "DCDiscreteFactor::updateContinuous",
                    !.arg = continuousVals,
                    !.before = [d |-> shadow.d, c |-> shadow.c]]
  /\ ShadowFrame

\* the shadows assigned from: fresh shadows of any of the hybrid factors,
\* and the same with the discrete key frozen at 0
AssignedDiscrete ==
  {DCDiscrete_updateDiscrete(NewDCDiscreteFactor(1, h), discreteVals) :
     h \in Mixtures, discreteVals \in Snapshots(DKeys, {0})}

AssignedContinuous ==
  {DCContinuous_updateDiscrete(NewDCContinuousFactor(1, h), discreteVals) :
     h \in Mixtures, discreteVals \in Snapshots(DKeys, {0})}

\* d = rhs, DCDiscreteFactor::operator=: the keys, the hybrid factor and
\* both frozen snapshots are those of rhs
ShadowAssignDiscrete ==
  /\ shadow.call # "none"
  /\ \E rhs \in AssignedDiscrete :
       shadow' = [shadow EXCEPT
                    !.d = rhs,
                    !.call = "DCDiscreteFactor::operator=",
                    !.arg = EmptyValues,
                    !.before = [d |-> shadow.d, c |-> shadow.c]]
  /\ ShadowFrame

\* c = rhs, DCContinuousFactor::operator=: the keys, the hybrid factor and
\* the frozen discrete values are those of rhs
ShadowAssignContinuous ==
  /\ shadow.call # "none"
  /\ \E rhs \in AssignedContinuous :
       shadow' = [shadow EXCEPT
                    !.c = rhs,
                    !.call = "DCContinuousFactor::operator=",
                    !.arg = EmptyValues,
                    !.before = [d |-> shadow.d, c |-> shadow.c]]
  /\ ShadowFrame

NextShadow ==
  \/ ShadowConstruct
  \/ ShadowAssignDiscrete
  \/ ShadowAssignContinuous
  \/ ShadowContinuousUpdateDiscrete
  \/ ShadowDiscreteUpdateDiscrete
  \/ ShadowDiscreteUpdateContinuous

SpecShadow == Init /\ [][NextShadow]_vars

\* ---- the mixture families ---------------------------------------------------
\* A component of a max-, sum- or EM-mixture (the template parameter
\* DCFactorType), after SemanticBearingRangeFactor: a continuous factor
\* factor_ and a table probs_ over its one discrete key.  The pose and the
\* point key of factor_ are one scalar key here, and factor_ is the scalar
\* factor info * (x - mu)^2.  The weights of probs_ are powers of two.
Component(key, dk, mu, info, dim) ==
  [keys |-> <<key>>, dk |-> dk,
   factor_ |-> [key |-> key, mu |-> mu, info |-> info, dim |-> dim],
   probs_ |-> <<2, 1>>]

\* SemanticBearingRangeFactor::error: factor_.error(continuousVals) minus the
\* logarithm of probs_ at the assignment of the discrete key
Component_error(f, continuousVals, discreteVals) ==
  PriorError(f.factor_, continuousVals) - Log2(f.probs_[discreteVals[f.dk] + 1])

Component_dim(f) == f.factor_.dim

\* SemanticBearingRangeFactor::logNormalizingConstant:
\* nonlinearFactorLogNormalizingConstant(factor_), where the information
\* matrix of the isotropic noise of a component with dim rows is info times
\* the identity, of determinant info^dim: -(dim * log(info)) / 2 in base 2.
\* The term in log(2 pi) is the same for all components of one mixture and
\* is dropped.
Component_logNormalizingConstant(f) ==
  0 - ((f.factor_.dim * Log2(f.factor_.info)) \div 2)

\* x + 2^k, where a number is kept as the set of the places of the digits 1
\* of its binary expansion: 2^3 + 2^0 is {0, 3}, 2^-1 is {-1}, 0 is {}
RECURSIVE PlusPowerOfTwo(_, _)
PlusPowerOfTwo(x, k) ==
  IF k \in x THEN PlusPowerOfTwo(x \ {k}, k + 1) ELSE x \cup {k}

\* logSumExp of a vector of base-2 logarithms, kept as the number whose
\* base-2 logarithm it is: the sum of the 2^v[i], in binary
RECURSIVE logSumExp(_)
logSumExp(v) ==
  IF v = <<>> THEN {} ELSE PlusPowerOfTwo(logSumExp(Tail(v)), Head(v))

\* log of every weight, as pushed onto log_weights_
LogWeights(weights) == [i \in 1..Len(weights) |-> Log2(weights[i])]

\* log_weights_ of a factor constructed without weights: a 0 per component
ZeroLogWeights(factors) == [i \in 1..Len(factors) |-> 0]

\* DCMaxMixtureFactor(continuousKeys, discreteKeys, factors, weights,
\* normalized)
DCMaxMixtureFactor(factors, weights, normalized) ==
  [family |-> "max", factors_ |-> factors, log_weights_ |-> LogWeights(weights),
   normalized_ |-> normalized]

\* DCMaxMixtureFactor(continuousKeys, discreteKeys, factors, normalized)
DCMaxMixtureFactor_noWeights(factors, normalized) ==
  [family |-> "max", factors_ |-> factors,
   log_weights_ |-> ZeroLogWeights(factors), normalized_ |-> normalized]

DCEMFactor(factors, weights, normalized) ==
  [family |-> "em", factors_ |-> factors, log_weights_ |-> LogWeights(weights),
   normalized_ |-> normalized]

DCEMFactor_noWeights(factors, normalized) ==
  [family |-> "em", factors_ |-> factors,
   log_weights_ |-> ZeroLogWeights(factors), normalized_ |-> normalized]

\* std::numeric_limits<double>::infinity(): above every error of the model
Infinity == 1073741824

\* a quiet NaN, kept as a number below every number of the model
NaN == 0 - Infinity

\* a double that the memory decides and whose value the model does not
\* follow: it stands for every double, the infinities included, and is kept
\* as a number below every number of the model.  No arithmetic is done with
\* it: what is computed from it is AnyDouble again (or NaN).
AnyDouble == 1 - Infinity

\* what a read of log_weights_[i] past the end of a vector that has storage
\* may give: whatever the heap holds there, any double.  The model follows
\* the value of the 0 of fresh memory, of a small, a middle and a large
\* number of either sign, and of NaN; every other double is AnyDouble.
PastTheEnd == {0 - 72, 0 - 10, 0 - 1, 0, 1, 10, 72, NaN, AnyDouble}

\* the reads log_weights_[0] .. log_weights_[n - 1] do not return: a vector
\* that never held an element has no storage, and the read of its element 0
\* ends the run
NoStorage(log_weights, n) == Len(log_weights) = 0 /\ n > 0

\* what the reads log_weights_[0] .. log_weights_[n - 1] give on a vector
\* with storage: the stored values and, past the end of the vector
\* (undefined), any values
ReadLogWeights(log_weights, n) ==
  IF n <= Len(log_weights) THEN {log_weights}
  ELSE {[i \in 1..n |-> IF i <= Len(log_weights) THEN log_weights[i]
                         ELSE tail[i - Len(log_weights)]] :
          tail \in [1..(n - Len(log_weights)) -> PastTheEnd]}

\* memory past the end of log_weights_ under which the component j (counted
\* from 0) without a weight is the active one at every point: +infinity
\* where its log weight would be, NaN at the other places
TakenByMemory(log_weights, n, j) ==
  [i \in 1..n |-> IF i <= Len(log_weights) THEN log_weights[i]
                  ELSE IF i = j + 1 THEN Infinity ELSE NaN]

\* DCSumMixtureFactor with weights, any number of them: log_beta_ is computed
\* from the components' normalizing constants and log_weights_[i] for every
\* component i, read being what these reads gave.  A sum with a NaN is NaN,
\* and a sum with a double the model does not follow is not followed.
DCSumMixtureFactor_read(factors, weights, normalized, read) ==
  [family |-> "sum", factors_ |-> factors, log_weights_ |-> LogWeights(weights),
   normalized_ |-> normalized,
   log_beta_ |->
     IF \E i \in 1..Len(factors) : read[i] = NaN THEN {NaN}
     ELSE IF \E i \in 1..Len(factors) : read[i] = AnyDouble THEN {AnyDouble}
     ELSE logSumExp([i \in 1..Len(factors) |->
            (0 - Component_logNormalizingConstant(factors[i])) + read[i]])]

\* DCSumMixtureFactor with at least one weight per component
DCSumMixtureFactor(factors, weights, normalized) ==
  DCSumMixtureFactor_read(factors, weights, normalized, LogWeights(weights))

\* DCSumMixtureFactor without weights: the constructor never writes
\* log_beta_; the member holds whatever the memory held (uninitialized), a
\* value of UninitializedLogBeta.
DCSumMixtureFactor_noWeights(factors, normalized, uninitialized) ==
  [family |-> "sum", factors_ |-> factors,
   log_weights_ |-> ZeroLogWeights(factors), normalized_ |-> normalized,
   log_beta_ |-> uninitialized]

\* DCMaxMixtureFactor::getActiveFactorIdx, the loop from component i on (i
\* counts from 0) with the running minimum.  An error computed from NaN is
\* NaN, and error < min_error is false for it.
RECURSIVE getActiveFactorIdxFrom(_, _, _, _, _, _)
getActiveFactorIdxFrom(m, cv, dv, i, min_error, min_error_idx) ==
  IF i >= Len(m.factors_) THEN min_error_idx
  ELSE LET e0 == Component_error(m.factors_[i + 1], cv, dv)
                   - m.log_weights_[i + 1]
           error == IF ~m.normalized_
                    THEN e0 + Component_logNormalizingConstant(m.factors_[i + 1])
                    ELSE e0
       IN IF m.log_weights_[i + 1] # NaN /\ error < min_error
          THEN getActiveFactorIdxFrom(m, cv, dv, i + 1,
                                      error, i)
          ELSE getActiveFactorIdxFrom(m, cv, dv, i + 1,
                                      min_error, min_error_idx)

getActiveFactorIdx(m, continuousVals, discreteVals) ==
  getActiveFactorIdxFrom(m, continuousVals, discreteVals, 0, Infinity, 0)

\* DCMaxMixtureFactor::error
DCMaxMixtureFactor_error(m, continuousVals, discreteVals) ==
  LET min_error_idx == getActiveFactorIdx(m, continuousVals, discreteVals)
      min_error == Component_error(m.factors_[min_error_idx + 1],
                                   continuousVals, discreteVals)
  IN IF m.normalized_ THEN min_error - m.log_weights_[min_error_idx + 1]
     ELSE min_error
          + Component_logNormalizingConstant(m.factors_[min_error_idx + 1])
          - m.log_weights_[min_error_idx + 1]

\* DCMaxMixtureFactor::linearize: the linearization of the active component,
\* kept as the continuous factor linearized and the point
DCMaxMixtureFactor_linearize(m, continuousVals, discreteVals) ==
  LET min_error_idx == getActiveFactorIdx(m, continuousVals, discreteVals)
      f == m.factors_[min_error_idx + 1]
  IN [factor_ |-> f.factor_, at |-> continuousVals[f.factor_.key]]

\* DCMaxMixtureFactor::toDecisionTreeFactor: the factors of the product, in
\* order: the table of the active component, a uniform table on the discrete
\* key of every other one
DCMaxMixtureFactor_toDecisionTreeFactor(m, continuousVals, discreteVals) ==
  LET min_error_idx == getActiveFactorIdx(m, continuousVals, discreteVals)
  IN [i \in 1..Len(m.factors_) |->
        [dk |-> m.factors_[i].dk, uniform |-> (i - 1) # min_error_idx]]

\* DCMaxMixtureFactor::getAssociationKeys
DCMaxMixtureFactor_getAssociationKeys(m, continuousVals, discreteVals) ==
  m.factors_[getActiveFactorIdx(m, continuousVals, discreteVals) + 1].keys

\* mutant: as many weights as both vectors have are taken over
updateWeights_truncating(m, weights) ==
  [factor |-> [m EXCEPT !.log_weights_ =
                 [i \in 1..Len(m.log_weights_) |->
                    IF i <= Len(weights) THEN Log2(weights[i])
                    ELSE m.log_weights_[i]]],
   cerr |-> Len(weights) # Len(m.log_weights_),
   returned |-> TRUE]

\* DCMaxMixtureFactor / DCSumMixtureFactor / DCEMFactor ::updateWeights: a
\* vector of another size is reported on std::cerr and the call returns;
\* otherwise every log weight is replaced.
updateWeights(m, weights) ==
  IF Len(weights) # Len(m.log_weights_)
  THEN [factor |-> m, cerr |-> TRUE, returned |-> TRUE]
  ELSE [factor |-> [m EXCEPT !.log_weights_ = LogWeights(weights)],
        cerr |-> FALSE, returned |-> TRUE]

\* mutant: the max-mixture counts the rows of all its components
DCMaxMixtureFactor_dim_sum(m) ==
  SumSeq([i \in 1..Len(m.factors_) |-> Component_dim(m.factors_[i])])

DCMaxMixtureFactor_dim(m) ==
  IF Len(m.factors_) > 0 THEN Component_dim(m.factors_[1]) ELSE 0

DCSumMixtureFactor_dim(m) ==
  IF Len(m.factors_) > 0 THEN Component_dim(m.factors_[1]) ELSE 0

DCEMFactor_dim(m) ==
  SumSeq([i \in 1..Len(m.factors_) |-> Component_dim(m.factors_[i])])

\* the virtual call dim() on a mixture of any of the three families
Mixture_dim(m) ==
  CASE m.family = "max" -> DCMaxMixtureFactor_dim(m)
    [] m.family = "sum" -> DCSumMixtureFactor_dim(m)
    [] m.family = "em" -> DCEMFactor_dim(m)

\* ---- a caller constructing and querying one mixture factor -----------------
SeqsUpTo(S, n) == UNION {[1..k -> S] : k \in 0..n}

\* rows of a component's continuous factor; all components of one mixture
\* measure the same thing and have the same number of rows
ComponentDim == 2

\* the components a caller makes a mixture of: two on x1, one on x2, all
\* with the discrete key d1
ComponentPool ==
  {Component("x1", "d1", 0, 1, ComponentDim),
   Component("x1", "d1", MaxX, 4, ComponentDim),
   Component("x2", "d1", 0, 1, ComponentDim)}

\* the weights a caller passes
MixWeights == {1, 2}

\* what a double that was never written may hold: whatever the memory held,
\* any double.  The model follows the value of the integers from -1 to one
\* above 8 per component, of a middle and a large negative number, of a
\* large positive number, and of NaN; every other double is AnyDouble.
UninitializedDoubles ==
  ((0 - 1)..(8 * MaxComponents + 1)) \cup {0 - 72, 0 - 10, 72, NaN, AnyDouble}

\* what a log_beta_ that was never written may hold.  log_beta_ is kept as
\* the number whose base-2 logarithm it is: a member holding the double x is
\* {x}, and {AnyDouble} is a member holding any other double; next to these
\* the model has every log_beta_ that a constructor with weights computes
\* from components and weights of the model (a component adds 2^0 .. 2^3).
UninitializedLogBeta ==
  {{x} : x \in UninitializedDoubles}
    \cup {logSumExp(v) : v \in SeqsUpTo(0..3, MaxComponents)}

MixFrame ==
  UNCHANGED <<ndebug, pc, nUpdates, heap, dfg_, isam_, currContinuous_,
              currDiscrete_, frame, estimate, previous, solved, hfg, shadow,
              dgraph>>

\* the caller constructs a mixture of one of the three families, with any
\* number of weights or without weights
MixConstruct ==
  /\ mix.call = "none"
  /\ \E normalized \in BOOLEAN :
       \E factors \in SeqsUpTo(ComponentPool, MaxComponents) :
         \/ \E weights \in SeqsUpTo(MixWeights, MaxComponents) :
              \/ \E m \in {DCMaxMixtureFactor(factors, weights, normalized),
                           DCEMFactor(factors, weights, normalized)} :
                   mix' = [obj |-> m, call |-> "constructor",
                           arg |-> [weights |-> weights, omitted |-> FALSE],
                           result |-> <<>>]
              \/ /\ ~NoStorage(LogWeights(weights), Len(factors))
                 /\ \E read \in ReadLogWeights(LogWeights(weights), Len(factors)) :
                      mix' = [obj |-> DCSumMixtureFactor_read(factors, weights,
                                                              normalized, read),
                              call |-> "constructor",
                              arg |-> [weights |-> weights, omitted |-> FALSE],
                              result |-> <<>>]
              \/ /\ NoStorage(LogWeights(weights), Len(factors))
                 /\ mix' = [obj |-> NoMixture.obj,
                            call |-> "DCSumMixtureFactor (crashed)",
                            arg |-> [weights |-> weights, omitted |-> FALSE],
                            result |-> <<>>]
         \/ \E uninitialized \in UninitializedLogBeta :
              \E m \in {DCMaxMixtureFactor_noWeights(factors, normalized),
                         DCSumMixtureFactor_noWeights(factors, normalized,
                                                      uninitialized),
                         DCEMFactor_noWeights(factors, normalized)} :
                mix' = [obj |-> m, call |-> "constructor",
                        arg |-> [weights |-> <<>>, omitted |-> TRUE],
                        result |-> <<>>]
  /\ MixFrame

\* the caller has a mixture and the run has not ended in a constructor, in
\* operator= or in an evaluation
MixAlive ==
  mix.call \notin {"none", "DCSumMixtureFactor (crashed)", "operator= (crashed)",
                   "evaluate (crashed)"}

\* the component lists of the mixtures assigned from
AssignedFactors ==
  {<<Component("x1", "d1", 0, 1, ComponentDim)>>,
   <<Component("x2", "d1", 0, 1, ComponentDim),
     Component("x1", "d1", MaxX, 4, ComponentDim)>>}

\* the mixtures assigned from: of the class of the target, unnormalized, with
\* a weight 2 per component
AssignedFrom(family) ==
  {CASE family = "max" -> DCMaxMixtureFactor(fs, [i \in 1..Len(fs) |-> 2], FALSE)
     [] family = "sum" -> DCSumMixtureFactor(fs, [i \in 1..Len(fs) |-> 2], FALSE)
     [] family = "em" -> DCEMFactor(fs, [i \in 1..Len(fs) |-> 2], FALSE) :
     fs \in AssignedFactors}

\* a = rhs on two mixtures of one class: operator= copies factors_,
\* log_weights_, normalized_ (and log_beta_ of a sum-mixture) and has no
\* return statement, which is undefined: the call returns or the run ends
MixAssign ==
  /\ MixAlive
  /\ \E rhs \in AssignedFrom(mix.obj.family) :
       \E call \in {"operator=", "operator= (crashed)"} :
         mix' = [obj |-> rhs, call |-> call, arg |-> <<>>, result |-> <<>>]
  /\ MixFrame

\* the caller calls updateWeights with a vector of any length
MixUpdateWeights ==
  /\ MixAlive
  /\ \E weights \in SeqsUpTo(MixWeights, MaxComponents) :
       LET r == updateWeights(mix.obj, weights)
       IN mix' = [obj |-> r.factor, call |-> "updateWeights",
                  arg |-> weights,
                  result |-> [cerr |-> r.cerr, returned |-> r.returned]]
  /\ MixFrame

\* the caller asks for dim()
MixDim ==
  /\ MixAlive
  /\ mix' = [mix EXCEPT !.call = "dim", !.arg = <<>>,
                        !.result = Mixture_dim(mix.obj)]
  /\ MixFrame

\* the caller evaluates a max-mixture at one point: the active index, the
\* error, the linearization, the discrete factor and the association keys.
\* Each of them reads log_weights_[i] for the components i; with fewer
\* weights than components the reads past the end give any values, and
\* without any weight the first read ends the run.  Where the memory holds
\* a double the model follows, the five results are computed from it;
\* for every other content the active index is the one of the followed
\* reads with NaN at the other places, or a component j without a weight,
\* and the error returned is then e_j minus what the memory held, any
\* double.  On a mixture without
\* components the active index is 0 and error fails its assert
\* min_error_idx < factors_.size(); without asserts it reads factors_[0] of
\* a vector without storage: the run ends either way.
MixEvaluate ==
  /\ MixAlive
  /\ mix.obj.family = "max"
  /\ \E continuousVals \in [CKeys -> X],
        discreteVals \in [{"d1"} -> 0..(Card - 1)] :
       IF \/ Len(mix.obj.factors_) = 0
          \/ NoStorage(mix.obj.log_weights_, Len(mix.obj.factors_))
       THEN mix' = [mix EXCEPT
                      !.call = "evaluate (crashed)",
                      !.arg = [continuousVals |-> continuousVals,
                               discreteVals |-> discreteVals],
                      !.result = <<>>]
       ELSE
       \E followed \in BOOLEAN :
       \E read \in
           IF followed
           THEN {r \in ReadLogWeights(mix.obj.log_weights_,
                                      Len(mix.obj.factors_)) :
                   \A i \in 1..Len(r) : r[i] # AnyDouble}
           ELSE {TakenByMemory(mix.obj.log_weights_, Len(mix.obj.factors_), j) :
                   j \in Len(mix.obj.log_weights_)..(Len(mix.obj.factors_) - 1)} :
         LET m == [mix.obj EXCEPT !.log_weights_ = read]
         IN mix' = [mix EXCEPT
              !.call = "evaluate",
              !.arg = [continuousVals |-> continuousVals,
                       discreteVals |-> discreteVals],
              !.result =
                [getActiveFactorIdx |->
                   getActiveFactorIdx(m, continuousVals, discreteVals),
                 error |->
                   IF followed
                   THEN DCMaxMixtureFactor_error(m, continuousVals, discreteVals)
                   ELSE AnyDouble,
                 linearize |->
                   DCMaxMixtureFactor_linearize(m, continuousVals, discreteVals),
                 toDecisionTreeFactor |->
                   DCMaxMixtureFactor_toDecisionTreeFactor(m, continuousVals,
                                                           discreteVals),
                 getAssociationKeys |->
                   DCMaxMixtureFactor_getAssociationKeys(m, continuousVals,
                                                         discreteVals)]]
  /\ MixFrame

NextMix ==
  \/ MixConstruct
  \/ MixAssign
  \/ MixUpdateWeights
  \/ MixDim
  \/ MixEvaluate

SpecMix == Init /\ [][NextMix]_vars

\* ---- a caller constructing, evaluating and comparing DCFactors ---------------
\* DCFactor(continuousKeys, discreteKeys): the base part of every hybrid
\* factor, next to the derived class and its own members.  A discrete key is
\* <<key, cardinality>>.
DCFactor(family, continuousKeys, discreteKeys, self) ==
  [family |-> family, keys_ |-> continuousKeys, discreteKeys_ |-> discreteKeys,
   self |-> self]

\* DCMixtureFactor(keys, dk, factors, normalized): dk_ = dk, factors_ =
\* factors; the cardinality of dk is the caller's and is not compared with
\* factors.size().  The components are scalar factors on the first key.
DCMixtureFactor_keys(keys, dk, card, comps, normalized) ==
  DCFactor("dc", keys, << <<dk, card>> >>,
           [DCMixtureFactor(keys[1], dk, comps, normalized) EXCEPT
              !.keys = keys, !.card = card])

\* DCMixtureFactor::linearize: the linearization of factors_[assignment],
\* kept as the component linearized and the point
DCMixtureFactor_linearize(h, continuousVals, discreteVals) ==
  LET f == h.factors[discreteVals[h.dk] + 1]
  IN [factor_ |-> f, at |-> continuousVals[f.key]]

\* the components a caller makes a DCMixtureFactor of, as <<mean, information>>
DCComps == {<<0, 4>>, <<MaxX, 1>>}

\* the continuous key lists a caller passes
KeyLists == {<<"x1">>, <<"x1", "x2">>}

\* no component was linearized
NoLinearization == [factor_ |-> [key |-> "none", mu |-> 0, info |-> 0], at |-> 0]

\* the arguments of the constructor of a hybrid factor of one of the four
\* mixture classes: DCMixtureFactor takes one discrete key and scalar
\* components, the other three a discrete key list, DCFactor components and
\* weights
MixtureArgs ==
  [family : {"dc"}, keys : KeyLists, dk : DKeys, card : 1..MaxComponents,
   factors : SeqsUpTo(DCComps, MaxComponents), weights : {<<>>},
   normalized : BOOLEAN]

WeightedArgs ==
  UNION {[family : {"max", "sum", "em"}, keys : KeyLists, dk : DKeys,
          card : {Card}, factors : {factors},
          weights : [1..Len(factors) -> MixWeights], normalized : BOOLEAN] :
           factors \in SeqsUpTo(ComponentPool, MaxComponents)}

\* the constructor call with the arguments a
Construct(a) ==
  CASE a.family = "dc" ->
         DCMixtureFactor_keys(a.keys, a.dk, a.card, a.factors, a.normalized)
    [] a.family = "max" ->
         DCFactor("max", a.keys, << <<a.dk, a.card>> >>,
                  DCMaxMixtureFactor(a.factors, a.weights, a.normalized))
    [] a.family = "sum" ->
         DCFactor("sum", a.keys, << <<a.dk, a.card>> >>,
                  DCSumMixtureFactor(a.factors, a.weights, a.normalized))
    [] a.family = "em" ->
         DCFactor("em", a.keys, << <<a.dk, a.card>> >>,
                  DCEMFactor(a.factors, a.weights, a.normalized))

\* std::equal(first1, last1, first2) on two key lists: the elements of the
\* first list against those at the same places of the second.  When the
\* second list is shorter the read runs past its end, which is undefined:
\* ub is the answer the build then gives.
StdEqual(keys1, keys2, ub) ==
  IF Len(keys2) < Len(keys1)
  THEN (\A i \in 1..Len(keys2) : keys1[i] = keys2[i]) /\ ub
  ELSE \A i \in 1..Len(keys1) : keys1[i] = keys2[i]

\* SemanticBearingRangeFactor::equals: factor_, keys_, discreteKeys_, probs_
Component_equals(f, g) ==
  /\ f.factor_ = g.factor_
  /\ StdEqual(f.keys, g.keys, FALSE)
  /\ f.dk = g.dk
  /\ f.probs_ = g.probs_

\* DCMixtureFactor::equals: the class of other, the components, then keys_
\* by std::equal, discreteKeys_ and normalized_
DCMixtureFactor_equals(a, other, ub) ==
  /\ other.family = "dc"
  /\ Len(a.self.factors) = Len(other.self.factors)
  /\ \A i \in 1..Len(a.self.factors) :
       a.self.factors[i] = other.self.factors[i]
  /\ StdEqual(a.keys_, other.keys_, ub)
  /\ a.discreteKeys_ = other.discreteKeys_
  /\ a.self.normalized = other.self.normalized

\* DCMaxMixtureFactor::equals and DCEMFactor::equals: the class of other,
\* the components, log_weights_ and normalized_
DCMaxMixtureFactor_equals(a, other) ==
  /\ other.family = a.family
  /\ Len(a.self.factors_) = Len(other.self.factors_)
  /\ \A i \in 1..Len(a.self.factors_) :
       Component_equals(a.self.factors_[i], other.self.factors_[i])
  /\ a.self.log_weights_ = other.self.log_weights_
  /\ a.self.normalized_ = other.self.normalized_

\* DCSumMixtureFactor::equals: as above, and log_beta_
DCSumMixtureFactor_equals(a, other) ==
  /\ DCMaxMixtureFactor_equals(a, other)
  /\ a.self.log_beta_ = other.self.log_beta_

\* the virtual call a.equals(other)
DCFactor_equals(a, other, ub) ==
  CASE a.family = "dc" -> DCMixtureFactor_equals(a, other, ub)
    [] a.family = "sum" -> DCSumMixtureFactor_equals(a, other)
    [] OTHER -> DCMaxMixtureFactor_equals(a, other)

\* the arguments of a second factor made to be compared with the one made
\* from a: the same, or one argument changed
Variations(a) ==
  {a}
  \cup {[a EXCEPT !.keys = k] : k \in KeyLists}
  \cup {[a EXCEPT !.dk = d] : d \in DKeys}
  \cup {[a EXCEPT !.normalized = ~a.normalized]}
  \cup (IF a.family = "dc"
        THEN {[a EXCEPT !.card = c] : c \in 1..MaxComponents}
             \cup {[a EXCEPT !.factors = fs] :
                     fs \in {gs \in SeqsUpTo(DCComps, MaxComponents) :
                               Len(gs) = Len(a.factors)}}
        ELSE {[a EXCEPT !.family = f] : f \in {"max", "sum", "em"}}
             \cup {[a EXCEPT !.weights = w] :
                     w \in [1..Len(a.factors) -> MixWeights]}
             \cup {[a EXCEPT !.factors = fs] :
                     fs \in {gs \in SeqsUpTo(ComponentPool, MaxComponents) :
                               Len(gs) = Len(a.factors)}})

\* the caller constructs a DCMixtureFactor; the cardinality of the discrete
\* key and the number of components are both the caller's
DCFactorConstructMixture ==
  /\ mix.call = "none"
  /\ \E a \in MixtureArgs :
       mix' = [obj |-> Construct(a), call |-> "DCMixtureFactor", arg |-> a,
               result |-> <<>>]
  /\ MixFrame

\* the caller constructs a max-mixture, a sum-mixture or an EM factor
DCFactorConstructWeighted ==
  /\ mix.call = "none"
  /\ \E a \in WeightedArgs :
       mix' = [obj |-> Construct(a), call |-> "constructor", arg |-> a,
               result |-> <<>>]
  /\ MixFrame

\* what a = rhs leaves in a, as the constructor arguments that make the same
\* factor.  DCMixtureFactor::operator= copies the base part (keys_,
\* discreteKeys_), dk_ and factors_ and leaves normalized_; operator= of the
\* other three classes copies factors_, log_weights_, normalized_ (and
\* log_beta_) and leaves the base part.
Assigned(a, rhs) ==
  IF a.family = "dc" THEN [rhs EXCEPT !.normalized = a.normalized]
  ELSE [rhs EXCEPT !.keys = a.keys, !.dk = a.dk, !.card = a.card]

\* the caller constructs a second factor of the same class and assigns it to
\* the first.  None of the four operator= has a return statement, which is
\* undefined: the call returns or the run ends.
DCFactorAssign ==
  /\ mix.call \in {"DCMixtureFactor", "constructor", "operator="}
  /\ \E rhs \in {b \in Variations(mix.arg) : b.family = mix.arg.family} :
       \E call \in {"operator=", "operator= (crashed)"} :
         mix' = [obj |-> Construct(Assigned(mix.arg, rhs)), call |-> call,
                 arg |-> Assigned(mix.arg, rhs), result |-> <<>>]
  /\ MixFrame

\* the caller constructs a second factor and compares the two, both ways
DCFactorEquals ==
  /\ mix.call \in {"DCMixtureFactor", "constructor", "operator="}
  /\ \E b \in Variations(mix.arg), ub \in BOOLEAN :
       mix' = [mix EXCEPT
                 !.call = "equals",
                 !.arg = [a |-> mix.arg, b |-> b],
                 !.result = [ab |-> DCFactor_equals(mix.obj, Construct(b), ub),
                             ba |-> DCFactor_equals(Construct(b), mix.obj, ub)]]
  /\ MixFrame

\* the caller calls error and linearize with an assignment of the discrete
\* key below its cardinality.  factors_[assignment] past the end of the
\* vector is undefined: the call crashes or returns any number.  error and
\* linearize are const: one call per constructed factor shows all they do.
DCFactorError ==
  /\ mix.call \in {"DCMixtureFactor", "operator="}
  /\ mix.obj.family = "dc"
  /\ LET h == mix.obj.self
     IN \E continuousVals \in [Range(h.keys) -> X] :
          \E discreteVals \in [{h.dk} -> 0..(h.card - 1)] :
            \E result \in
                IF discreteVals[h.dk] < Len(h.factors)
                THEN {[outcome |-> "returned",
                       error |-> DCMixtureError(h, continuousVals, discreteVals),
                       linearize |->
                         DCMixtureFactor_linearize(h, continuousVals, discreteVals)]}
                ELSE {[outcome |-> o, error |-> e, linearize |-> NoLinearization] :
                        o \in {"returned", "crashed"}, e \in UninitializedDoubles} :
              mix' = [mix EXCEPT
                        !.call = "error",
                        !.arg = [continuousVals |-> continuousVals,
                                 discreteVals |-> discreteVals],
                        !.result = result]
  /\ MixFrame

NextDCFactor ==
  \/ DCFactorConstructMixture
  \/ DCFactorConstructWeighted
  \/ DCFactorAssign
  \/ DCFactorError
  \/ DCFactorEquals

SpecDCFactor == Init /\ [][NextDCFactor]_vars

\* ---- discrete priors in a discrete factor graph of the caller ---------------
\* The values of a prior are kept as integers, up to one positive scale per
\* factor: 0.1, 0.9 as 1, 9.  Marginals and most probable assignments do not
\* depend on the scale.
\* SmartDiscretePriorFactor(dk, probs): a DiscretePriorFactor that
\* dynamic_pointer_cast recognises as smart
SmartDiscretePriorFactor(dk, probs) ==
  [kind |-> "prior", smart |-> TRUE, dk |-> dk, probs |-> probs]

\* mutant: the new probabilities are stored in reverse order
updateProbs_reversed(f, probs) ==
  [f EXCEPT !.probs = [i \in 1..Len(probs) |-> probs[Len(probs) + 1 - i]]]

\* SmartDiscretePriorFactor::updateProbs, past its assert: probs_ = probs
updateProbs(f, probs) == [f EXCEPT !.probs = probs]

\* DiscretePriorFactor::operator(): probs_ at the assignment of dk_
DiscretePriorFactor_value(f, values) == f.probs[values[f.dk] + 1]

\* the order in which gtsam keeps keys (gtsam::Symbol d1 < d2)
KeyOrder == <<"d1", "d2">>

SortedKeys(S) == SelectSeq(KeyOrder, LAMBDA k : k \in S)

\* the assignments to the keys of a key sequence
Assignments(keys) == [Range(keys) -> 0..(Card - 1)]

Restrict(v, keys) == [k \in Range(keys) |-> v[k]]

\* gtsam::DecisionTreeFactor(): the empty product
UnitTable == [keys |-> <<>>, table |-> [v \in Assignments(<<>>) |-> 1]]

\* DiscretePriorFactor::toDecisionTreeFactor: DecisionTreeFactor(dk_, probs_)
toDecisionTreeFactor(f) ==
  [keys |-> <<f.dk>>,
   table |-> [v \in Assignments(<<f.dk>>) |-> DiscretePriorFactor_value(f, v)]]

\* gtsam::DecisionTreeFactor::operator*
TableTimes(a, b) ==
  LET keys == SortedKeys(Range(a.keys) \cup Range(b.keys))
  IN [keys |-> keys,
      table |-> [v \in Assignments(keys) |->
                   a.table[Restrict(v, a.keys)] * b.table[Restrict(v, b.keys)]]]

\* DiscretePriorFactor::operator*(f): toDecisionTreeFactor() * f
DiscretePriorFactor_times(f, t) == TableTimes(toDecisionTreeFactor(f), t)

\* sum of the values of the function f at the elements of S
RECURSIVE SumOver(_, _)
SumOver(f, S) ==
  IF S = {} THEN 0
  ELSE LET x == CHOOSE y \in S : TRUE IN f[x] + SumOver(f, S \ {x})

\* gtsam::DecisionTreeFactor::sum(frontalKeys): the frontal keys summed out
TableSum(t, frontalKeys) ==
  LET keys == SelectSeq(t.keys, LAMBDA k : k \notin Range(frontalKeys))
  IN [keys |-> keys,
      table |-> [v \in Assignments(keys) |->
                   SumOver(t.table, {w \in Assignments(t.keys) :
                                       Restrict(w, keys) = v})]]

\* gtsam::DiscreteConditional(joint, marginal, orderedKeys): joint / marginal
\* with the keys in the given order; a quotient is kept as <<numerator,
\* denominator>>
DiscreteConditional(joint, marginal, orderedKeys) ==
  [keys |-> orderedKeys,
   table |-> [v \in Assignments(joint.keys) |->
                <<joint.table[v], marginal.table[Restrict(v, marginal.keys)]>>]]

\* mutant: a null slot ends the product loop
RECURSIVE ProductOf_untilNull(_, _)
ProductOf_untilNull(factors, product) ==
  IF factors = <<>> THEN product
  ELSE IF Head(factors) = Null THEN product
  ELSE ProductOf_untilNull(Tail(factors),
                           DiscretePriorFactor_times(Head(factors), product))

\* CustomEliminateDiscrete, the product loop: a null factor is reported on
\* std::cout and skipped, every other factor is multiplied in
RECURSIVE ProductOf(_, _)
ProductOf(factors, product) ==
  IF factors = <<>> THEN product
  ELSE IF Head(factors) = Null THEN ProductOf(Tail(factors), product)
  ELSE ProductOf(Tail(factors),
                 DiscretePriorFactor_times(Head(factors), product))

\* DiscreteMarginalsOrdered::CustomEliminateDiscrete; product is the local
\* the conditional is made from
CustomEliminateDiscrete(factors, frontalKeys) ==
  LET product == ProductOf(factors, UnitTable)
      sum == TableSum(product, frontalKeys)
      orderedKeys == frontalKeys \o sum.keys
  IN [product |-> product, sum |-> sum,
      cond |-> DiscreteConditional(product, sum, orderedKeys),
      cout |-> Cardinality({i \in 1..Len(factors) : factors[i] = Null})]

\* the largest value of the product of the factors among the assignments
\* with key k = a
MaxProductAt(factors, k, a) ==
  LET product == ProductOf(factors, UnitTable)
  IN CHOOSE m \in {product.table[v] : v \in {w \in Assignments(product.keys) :
                                                w[k] = a}} :
       \A v \in Assignments(product.keys) : v[k] = a => product.table[v] <= m

\* mutant: on a tie the highest index wins
DiscreteFactorGraph_optimize_last(factors) ==
  LET keys == ProductOf(factors, UnitTable).keys
  IN [k \in Range(keys) |->
        CHOOSE a \in 0..(Card - 1) :
          /\ \A b \in 0..(Card - 1) :
               MaxProductAt(factors, k, b) <= MaxProductAt(factors, k, a)
          /\ \A b \in 0..(Card - 1) :
               MaxProductAt(factors, k, b) = MaxProductAt(factors, k, a)
                 => b <= a]

\* gtsam::DiscreteFactorGraph::optimize: for every key of the graph the
\* lowest index among its most probable values
DiscreteFactorGraph_optimize(factors) ==
  LET keys == ProductOf(factors, UnitTable).keys
  IN [k \in Range(keys) |->
        CHOOSE a \in 0..(Card - 1) :
          /\ \A b \in 0..(Card - 1) :
               MaxProductAt(factors, k, b) <= MaxProductAt(factors, k, a)
          /\ \A b \in 0..(Card - 1) :
               MaxProductAt(factors, k, b) = MaxProductAt(factors, k, a)
                 => a <= b]

\* gtsam::DiscreteMarginals::marginalProbabilities(dk): for every value a
\* of the key, <<weight of a, total weight>>
marginalProbabilities(factors, k) ==
  LET product == ProductOf(factors, UnitTable)
      others == SelectSeq(product.keys, LAMBDA j : j # k)
      marginal == TableSum(product, others)
      total == SumOver(marginal.table, Assignments(marginal.keys))
  IN [i \in 1..Card |-> <<marginal.table[[j \in {k} |-> i - 1]], total>>]

\* the probability vectors the caller makes priors of: those of the tests
DirectProbs == {<<1, 9>>, <<9, 1>>, <<45, 5>>}

\* the controller and the caller's other objects are not touched
DGraphFrame ==
  UNCHANGED <<ndebug, pc, nUpdates, heap, dfg_, isam_, currContinuous_,
              currDiscrete_, frame, estimate, previous, solved, hfg, shadow,
              mix>>

\* every call of the caller's graph has returned so far
DGraphRunning == dgraph.call # "aborted"

\* dfg.push_back(SmartDiscretePriorFactor(dk, probs))
DGraphPush ==
  /\ DGraphRunning
  /\ Len(dgraph.factors) < MaxGraph
  /\ \E k \in DKeys, probs \in DirectProbs :
       dgraph' = [factors |-> Append(dgraph.factors,
                                     SmartDiscretePriorFactor(k, probs)),
                  call |-> "push_back", arg |-> <<>>, result |-> NoResult,
                  before |-> NoResult]
  /\ DGraphFrame

\* dfg.remove(i): the slot stays, holding a null pointer
DGraphRemove ==
  /\ DGraphRunning
  /\ \E i \in 1..Len(dgraph.factors) :
       /\ dgraph.factors[i] # Null
       /\ dgraph' = [factors |-> [dgraph.factors EXCEPT ![i] = Null],
                     call |-> "remove", arg |-> i - 1, result |-> NoResult,
                     before |-> NoResult]
  /\ DGraphFrame

\* smart->updateProbs(probs) on the factor in slot i of the graph; a vector
\* of another length fails the assert, and without asserts is stored
DGraphUpdateProbs ==
  /\ DGraphRunning
  /\ \E i \in 1..Len(dgraph.factors) :
       /\ dgraph.factors[i] # Null
       /\ \E probs \in DirectProbs \cup {<<1, 9, 9>>} :
            IF ~ndebug /\ Len(probs) # Len(dgraph.factors[i].probs)
            THEN dgraph' = [dgraph EXCEPT
                             !.call = "aborted",
                             !.arg = [slot |-> i - 1, probs |-> probs],
                             !.result = NoResult, !.before = NoResult]
            ELSE dgraph' =
                   [factors |-> [dgraph.factors EXCEPT
                                   ![i] = updateProbs(dgraph.factors[i], probs)],
                    call |-> "updateProbs",
                    arg |-> [slot |-> i - 1, probs |-> probs],
                    result |-> NoResult,
                    before |-> IF dgraph.call = "optimize" THEN dgraph.result
                               ELSE NoResult]
  /\ DGraphFrame

\* DiscretePriorFactor::operator=: the base part (the keys), dk_ and probs_
\* are those of rhs; the class of the object stays
DiscretePriorFactor_assign(f, rhs) ==
  [f EXCEPT !.dk = rhs.dk, !.probs = rhs.probs]

\* *prior = DiscretePriorFactor(dk, probs) on the factor in slot i of the
\* graph; the constructor of the right-hand side asserts that probs has as
\* many values as the key has, the assignment checks nothing
DGraphAssign ==
  /\ DGraphRunning
  /\ \E i \in 1..Len(dgraph.factors) :
       /\ dgraph.factors[i] # Null
       /\ \E k \in DKeys, probs \in DirectProbs \cup {<<1, 9, 9>>} :
            IF ~ndebug /\ Len(probs) # Card
            THEN dgraph' = [dgraph EXCEPT
                             !.call = "aborted",
                             !.arg = [slot |-> i - 1, probs |-> probs],
                             !.result = NoResult, !.before = NoResult]
            ELSE dgraph' =
                   [factors |-> [dgraph.factors EXCEPT
                                   ![i] = DiscretePriorFactor_assign(
                                            dgraph.factors[i],
                                            DiscretePriorFactor(k, probs))],
                    call |-> "operator=",
                    arg |-> [slot |-> i - 1, probs |-> probs],
                    result |-> NoResult, before |-> NoResult]
  /\ DGraphFrame

\* every factor of the graph has as many values as its key has
DGraphWellFormed ==
  \A i \in 1..Len(dgraph.factors) :
    dgraph.factors[i] # Null => Len(dgraph.factors[i].probs) = Card

\* dfg.optimize() and the marginals of every key, on a graph without null
\* slots
DGraphSolve ==
  /\ DGraphRunning
  /\ DGraphWellFormed
  /\ \A i \in 1..Len(dgraph.factors) : dgraph.factors[i] # Null
  /\ dgraph' = [dgraph EXCEPT
       !.call = "optimize", !.arg = <<>>,
       !.before = IF dgraph.call = "updateProbs" THEN dgraph.before
                  ELSE NoResult,
       !.result =
         [optimize |-> DiscreteFactorGraph_optimize(dgraph.factors),
          marginalProbabilities |->
            [k \in Range(ProductOf(dgraph.factors, UnitTable).keys) |->
               marginalProbabilities(dgraph.factors, k)]]]
  /\ DGraphFrame

\* CustomEliminateDiscrete(dfg, frontalKeys), as eliminateMultifrontal calls
\* it: the frontal keys are keys of the factors
DGraphEliminate ==
  /\ DGraphRunning
  /\ DGraphWellFormed
  /\ \E frontalKeys \in {<<"d1">>, <<"d2">>, <<"d1", "d2">>, <<"d2", "d1">>} :
       /\ Range(frontalKeys) \subseteq
            {dgraph.factors[i].dk :
               i \in {j \in 1..Len(dgraph.factors) : dgraph.factors[j] # Null}}
       /\ dgraph' = [dgraph EXCEPT
            !.call = "CustomEliminateDiscrete", !.arg = frontalKeys,
            !.before = NoResult,
            !.result = CustomEliminateDiscrete(dgraph.factors, frontalKeys)]
  /\ DGraphFrame

NextDGraph ==
  \/ DGraphPush
  \/ DGraphRemove
  \/ DGraphUpdateProbs
  \/ DGraphAssign
  \/ DGraphSolve
  \/ DGraphEliminate

SpecDGraph == Init /\ [][NextDGraph]_vars

\* ---- one discrete prior, in a graph of the caller and in the controller ----
\* The caller either solves a graph of its own or hands priors to a
\* controller, as the tests do; it does not do both in one run.
ControllerUntouched == pc = "idle" /\ nUpdates = 0 /\ ~estimate.returned

DGraphUntouched == dgraph = NewDiscreteFactorGraph

PriorPush == ControllerUntouched /\ DGraphPush

PriorUpdateProbs == ControllerUntouched /\ DGraphUpdateProbs

PriorAssign == ControllerUntouched /\ DGraphAssign

PriorSolve == ControllerUntouched /\ DGraphSolve

\* the class measurements of the test simple_semantic_slam, (0.9, 0.1) and
\* (0.1, 0.9), scaled to powers of two, next to the priors of the other tests
ClassProbs == PriorProbs \cup {<<1, 4>>}

\* update(HybridFactorGraph holding one discrete prior on d1)
PriorUpdate ==
  /\ DGraphUntouched
  /\ \E p \in ClassProbs :
       UpdateBegin([NoBatch EXCEPT !.dfg = <<DiscretePriorFactor("d1", p)>>])

PriorUpdateSolve == DGraphUntouched /\ UpdateSolve

PriorUpdatePrime == DGraphUntouched /\ UpdatePrime

PriorUpdateIsam == DGraphUntouched /\ UpdateIsam

PriorCalculateEstimate == DGraphUntouched /\ CalculateEstimate

PriorDirect == DGraphUntouched /\ Direct

NextPrior ==
  \/ PriorPush
  \/ PriorUpdateProbs
  \/ PriorAssign
  \/ PriorSolve
  \/ PriorUpdate
  \/ PriorUpdateSolve
  \/ PriorUpdatePrime
  \/ PriorUpdateIsam
  \/ PriorCalculateEstimate
  \/ PriorDirect

SpecPrior == Init /\ [][NextPrior]_vars

\* ---- discrete initial guesses handed to the controller -----------------------
\* the argument lists of update(hfg, initialGuessContinuous,
\* initialGuessDiscrete) of a caller that adds at most one class prior on d1
\* per call and gives a discrete initial guess for any keys
GuessBatches ==
  {[NoBatch EXCEPT !.dfg = dfg, !.initialGuessDiscrete = g] :
     dfg \in {<<>>} \cup {<<DiscretePriorFactor("d1", p)>> : p \in PriorProbs},
     g \in Snapshots(DKeys, 0..(Card - 1))}

GuessUpdate == \E b \in GuessBatches : UpdateBegin(b)

NextGuess ==
  \/ GuessUpdate
  \/ UpdateSolve
  \/ UpdatePrime
  \/ UpdateIsam
  \/ CalculateEstimate
  \/ Direct

SpecGuess == Init /\ [][NextGuess]_vars

\* C11: calculateEstimate returns the optimizer's continuous estimate and the
\* most probable assignment of the accumulated discrete graph, solveDiscrete
\* returns that same discrete part, neither call changes the accumulated
\* discrete graph, the optimizer, the cached estimates or a shadow's frozen
\* values, and a second calculateEstimate returns what the first returned.
C11_EstimateIsPureQuery ==
  [][ObserveStep =>
       /\ UNCHANGED <<heap, dfg_, isam_, currContinuous_, currDiscrete_>>
       /\ estimate'.returned
       /\ estimate'.continuous = isam_.theta
       /\ estimate'.discrete = Optimize(heap, dfg_)
       /\ solved'.returned => solved'.discrete = estimate'.discrete
       /\ previous'.returned => previous' = estimate']_vars

\* C11 witness: calculateEstimate, solveDiscrete and calculateEstimate again
\* have returned, on a controller that holds a hybrid factor and whose cached
\* discrete estimate is not the one returned.
C11_Witness ==
  /\ pc = "idle"
  /\ previous.returned
  /\ solved.returned
  /\ \E i \in 1..Len(dfg_) : heap[dfg_[i]].kind = "dcd"
  /\ estimate.discrete # currDiscrete_

\* C12: when update is given factor indices to remove, the slots of the
\* accumulated discrete graph at those indices are gone (null) before the
\* discrete solve of that update, and stay so at every later solve.
C12_RemovedDiscreteSlotsGone ==
  pc = "solveDiscrete" =>
    \A j \in Range(frame.batch.removeFactorIndices) :
      (j + 1) \in 1..Len(dfg_) => heap[dfg_[j + 1]].kind = "null"

\* C14: after every push_nonlinear, push_discrete, push_dc and clear on a
\* HybridFactorGraph, size() is the sum of the three sizes and empty() holds
\* exactly when size() is 0; a push appends its factor at the end of its own
\* graph and leaves the other two and every existing index as they were;
\* clear() leaves all three sizes at 0.
C14_HybridFactorGraphSizes ==
  [][/\ size(hfg') = size_nonlinear(hfg') + size_discrete(hfg') + size_dc(hfg')
     /\ empty(hfg') <=> size(hfg') = 0
     /\ hfg'.call = "push_nonlinear" =>
          /\ size_nonlinear(hfg') = size_nonlinear(hfg) + 1
          /\ SubSeq(hfg'.nonlinearGraph_, 1, size_nonlinear(hfg))
               = hfg.nonlinearGraph_
          /\ hfg'.discreteGraph_ = hfg.discreteGraph_
          /\ hfg'.dcGraph_ = hfg.dcGraph_
     /\ hfg'.call = "push_discrete" =>
          /\ size_discrete(hfg') = size_discrete(hfg) + 1
          /\ SubSeq(hfg'.discreteGraph_, 1, size_discrete(hfg))
               = hfg.discreteGraph_
          /\ hfg'.nonlinearGraph_ = hfg.nonlinearGraph_
          /\ hfg'.dcGraph_ = hfg.dcGraph_
     /\ hfg'.call = "push_dc" =>
          /\ size_dc(hfg') = size_dc(hfg) + 1
          /\ SubSeq(hfg'.dcGraph_, 1, size_dc(hfg)) = hfg.dcGraph_
          /\ hfg'.nonlinearGraph_ = hfg.nonlinearGraph_
          /\ hfg'.discreteGraph_ = hfg.discreteGraph_
     /\ hfg'.call = "clear" =>
          /\ size_nonlinear(hfg') = 0
          /\ size_discrete(hfg') = 0
          /\ size_dc(hfg') = 0
          /\ size(hfg') = 0
          /\ empty(hfg')]_vars

\* C14 witness: clear() has just emptied a graph that held more factors than
\* one of its three graphs takes and one more: factors in at least two of
\* the three graphs.
C14_Witness ==
  /\ hfg.call = "clear"
  /\ hfg.before > MaxGraph + 1
  /\ empty(hfg)

\* the frozen discrete values t agree with what updateDiscrete(newDisc) must
\* leave behind from the frozen values s, for a hybrid factor on key dk
DiscreteEntriesAsClaimed(s, t, newDisc, dk) ==
  /\ DOMAIN t \subseteq {dk}
  /\ IF dk \in DOMAIN newDisc
     THEN dk \in DOMAIN t /\ t[dk] = newDisc[dk]
     ELSE /\ dk \in DOMAIN t <=> dk \in DOMAIN s
          /\ dk \in DOMAIN s => t[dk] = s[dk]

C16_UpdateIsIdempotent ==
  /\ shadow.call = "DCContinuousFactor::updateDiscrete" =>
       DCContinuous_updateDiscrete(shadow.c, shadow.arg) = shadow.c
  /\ shadow.call = "DCDiscreteFactor::updateDiscrete" =>
       DCDiscrete_updateDiscrete(shadow.d, shadow.arg) = shadow.d
  /\ shadow.call = "DCDiscreteFactor::updateContinuous" =>
       DCDiscrete_updateContinuous(shadow.d, shadow.arg) = shadow.d

\* C16 witness: updateDiscrete has replaced the value a discrete shadow held
\* for its hybrid factor's key by a different one.
C16_Witness ==
  /\ shadow.call = "DCDiscreteFactor::updateDiscrete"
  /\ shadow.d.dcfactor.dk \in DOMAIN shadow.before.d.discreteVals
  /\ shadow.d.dcfactor.dk \in DOMAIN shadow.arg
  /\ shadow.before.d.discreteVals[shadow.d.dcfactor.dk]
       # shadow.arg[shadow.d.dcfactor.dk]
  /\ DOMAIN shadow.d.continuousVals # {}

\* the e_i of component i (counted from 1) of the mixture m at a point, from
\* the stored log weight of the component
C17_e(m, i, continuousVals, discreteVals) ==
  Component_error(m.factors_[i], continuousVals, discreteVals)
    - m.log_weights_[i]
    + (IF m.normalized_ THEN 0
       ELSE Component_logNormalizingConstant(m.factors_[i]))

C17_FirstMinimum(m, continuousVals, discreteVals) ==
  CHOOSE i \in 1..Len(m.factors_) :
    /\ \A j \in 1..Len(m.factors_) :
         C17_e(m, i, continuousVals, discreteVals)
           <= C17_e(m, j, continuousVals, discreteVals)
    /\ \A j \in 1..(i - 1) :
         C17_e(m, j, continuousVals, discreteVals)
           > C17_e(m, i, continuousVals, discreteVals)

\* C17: whenever the caller has evaluated a max-mixture with at least one
\* component at a point, the evaluation returned, every component has its
\* log weight, and the active index returned is the smallest index whose
\* e_i = component error - log weight (+ log normalizing constant when the
\* mixture is not normalized) is the minimum; error returned e_{i*};
\* linearize linearized component i*, toDecisionTreeFactor took the table of
\* component i* and a uniform table for every other component, and
\* getAssociationKeys returned the keys of component i*.
C17_MaxMixtureActiveIndex ==
  (/\ mix.call \in {"evaluate", "evaluate (crashed)"}
   /\ Len(mix.obj.factors_) >= 1) =>
    /\ mix.call = "evaluate"
    /\ Len(mix.obj.log_weights_) >= Len(mix.obj.factors_)
    /\ LET m == mix.obj
           cv == mix.arg.continuousVals
           dv == mix.arg.discreteVals
           istar == C17_FirstMinimum(m, cv, dv)
           r == mix.result
       IN /\ r.getActiveFactorIdx = istar - 1
          /\ r.error = C17_e(m, istar, cv, dv)
          /\ r.linearize.factor_ = m.factors_[istar].factor_
          /\ \A i \in 1..Len(m.factors_) :
               r.toDecisionTreeFactor[i].uniform = (i # istar)
          /\ r.getAssociationKeys = m.factors_[istar].keys

\* C18: a mixture of any of the three families that was just constructed
\* without weights is in the state of the one constructed from the same
\* components and normalized flag with a weight 1 per component: every log
\* weight is 0 and, for the sum-mixture, log_beta_ is the same.
C18_AllOnes(m) ==
  LET ones == [i \in 1..Len(m.factors_) |-> 1]
  IN CASE m.family = "max" -> DCMaxMixtureFactor(m.factors_, ones, m.normalized_)
       [] m.family = "sum" -> DCSumMixtureFactor(m.factors_, ones, m.normalized_)
       [] m.family = "em" -> DCEMFactor(m.factors_, ones, m.normalized_)

C18_OmittedWeightsAreOnes ==
  (mix.call = "constructor" /\ mix.arg.omitted) =>
    /\ \A i \in 1..Len(mix.obj.log_weights_) : mix.obj.log_weights_[i] = 0
    /\ mix.obj = C18_AllOnes(mix.obj)

\* C19 as stated: after updateWeights was called on a mixture with a vector
\* whose length is not the number of stored weights, the call has not
\* returned normally.
C19_MismatchAborts ==
  (mix.call = "updateWeights" /\ Len(mix.arg) # Len(mix.obj.log_weights_)) =>
    ~mix.result.returned

\* C19: a call of updateWeights on a mixture of any family with a vector
\* whose length is not the number of stored weights writes a message to
\* std::cerr and returns normally, leaving the factor as it was; with a
\* vector of the right length it writes nothing, returns normally and
\* replaces every log weight by the logarithm of the weight passed.
C19_MismatchReportsAndReturns ==
  [][(mix'.call = "updateWeights" /\ mix' # mix) =>
       /\ mix'.result.returned
       /\ mix'.obj.factors_ = mix.obj.factors_
       /\ mix'.obj.normalized_ = mix.obj.normalized_
       /\ IF Len(mix'.arg) # Len(mix.obj.log_weights_)
          THEN mix'.result.cerr /\ mix'.obj = mix.obj
          ELSE /\ ~mix'.result.cerr
               /\ mix'.obj.log_weights_ =
                    [i \in 1..Len(mix'.arg) |-> Log2(mix'.arg[i])]]_vars

\* updateWeights was called with a vector of another length whose first
\* weight is not the stored one; the call returned, and the stored log
\* weight is still there
C19_Witness ==
  /\ mix.call = "updateWeights"
  /\ Len(mix.arg) # Len(mix.obj.log_weights_)
  /\ Len(mix.arg) >= 1
  /\ Len(mix.obj.log_weights_) >= 1
  /\ mix.obj.log_weights_[1] # Log2(mix.arg[1])
  /\ mix.result.returned
  /\ mix.result.cerr

\* C20 as stated: whenever dim() was called on a mixture of any family, it
\* returned the sum of the dim() of the components.
C20_SumOfComponentDims(m) ==
  SumSeq([i \in 1..Len(m.factors_) |-> m.factors_[i].factor_.dim])

C20_DimIsSumForEveryFamily ==
  mix.call = "dim" => mix.result = C20_SumOfComponentDims(mix.obj)

\* C20: whenever dim() was called on a mixture, an EM-mixture returned the
\* sum of the dim() of its components, and a max- or sum-mixture returned
\* the dim() of its first component, or 0 when it has no component.
C20_DimPerFamily ==
  mix.call = "dim" =>
    IF mix.obj.family = "em"
    THEN mix.result = C20_SumOfComponentDims(mix.obj)
    ELSE mix.result = (IF Len(mix.obj.factors_) = 0 THEN 0
                       ELSE mix.obj.factors_[1].factor_.dim)

\* dim() was called on a max-mixture of two components and returned the
\* rows of one of them, not of both
C20_Witness ==
  /\ mix.call = "dim"
  /\ mix.obj.family = "max"
  /\ Len(mix.obj.factors_) = 2
  /\ mix.result = mix.obj.factors_[1].factor_.dim
  /\ mix.result # C20_SumOfComponentDims(mix.obj)

\* the lowest index at which the vector p is largest
ArgMax(p) ==
  CHOOSE i \in 0..(Len(p) - 1) :
    /\ \A j \in 0..(Len(p) - 1) : p[j + 1] <= p[i + 1]
    /\ \A j \in 0..(i - 1) : p[j + 1] < p[i + 1]

\* a graph of the caller holding one prior that was just solved gave the
\* lowest index at which the prior is largest, and a marginal proportional
\* to the prior: the prior has the value p[i] at d = i
C21_SolvedToArgMax ==
  (dgraph.call = "optimize" /\ Len(dgraph.factors) = 1) =>
    LET f == dgraph.factors[1]
        m == dgraph.result.marginalProbabilities[f.dk]
    IN /\ dgraph.result.optimize = [k \in {f.dk} |-> ArgMax(f.probs)]
       /\ \A i \in 1..Card :
            m[i][1] * SumSeq(f.probs) = f.probs[i] * m[i][2]

\* the controller that was given one prior and asked for its estimate
\* returned the lowest index at which the prior is largest
C21_EstimateIsArgMax ==
  (pc = "idle" /\ estimate.returned /\ Len(heap) = 1) =>
    estimate.discrete = [k \in {heap[1].dk} |-> ArgMax(heap[1].probs)]

\* C21 as stated: a discrete prior with probabilities p evaluates to p[i] at
\* d = i, so a graph holding only that prior has most probable assignment
\* argmax p, in the caller's own graph and through update and
\* calculateEstimate; and whenever updateProbs(p') has returned, the factor
\* holds p' and its vector has as many entries as the key has values.
C21_UpdateProbsKeepsLength ==
  /\ C21_SolvedToArgMax
  /\ C21_EstimateIsArgMax
  /\ dgraph.call = "updateProbs" =>
       /\ dgraph.factors[dgraph.arg.slot + 1].probs = dgraph.arg.probs
       /\ Len(dgraph.factors[dgraph.arg.slot + 1].probs) = Card

\* C21: a graph holding only a discrete prior with probabilities p has most
\* probable assignment argmax p and marginal p, in the caller's own graph
\* and, through update and calculateEstimate, in the controller; whenever
\* updateProbs(p') has returned, the factor holds p', and its vector has as
\* many entries as the key has values if p' has that many or assertions are
\* compiled in (the call does not return otherwise); without assertions a
\* p' of another length is stored as it is; and a solve of a graph of one
\* prior right after updateProbs(p') on it returns argmax p'.
C21_PriorSolvesToArgMax ==
  /\ [](/\ C21_SolvedToArgMax
        /\ C21_EstimateIsArgMax
        /\ dgraph.call = "updateProbs" =>
             /\ dgraph.factors[dgraph.arg.slot + 1].probs = dgraph.arg.probs
             /\ (Len(dgraph.arg.probs) = Card \/ ~ndebug) =>
                  Len(dgraph.factors[dgraph.arg.slot + 1].probs) = Card
             /\ (Len(dgraph.arg.probs) # Card) => ndebug)
  /\ [][(/\ dgraph.call = "updateProbs"
          /\ dgraph'.call = "optimize"
          /\ Len(dgraph.factors) = 1) =>
           dgraph'.result.optimize =
             [k \in {dgraph.factors[1].dk} |-> ArgMax(dgraph.arg.probs)]]_vars

\* the caller's graph holds one prior, was solved, the prior was given new
\* probabilities, and the graph solved again has another most probable
\* assignment than before
C21_Witness ==
  /\ dgraph.call = "optimize"
  /\ Len(dgraph.factors) = 1
  /\ dgraph.before.optimize # EmptyValues
  /\ dgraph.before.optimize # dgraph.result.optimize
  /\ dgraph.result.optimize =
       [k \in {dgraph.factors[1].dk} |-> ArgMax(dgraph.factors[1].probs)]

\* the product of the values that the priors fs give to index i
RECURSIVE C22_Product(_, _)
C22_Product(fs, i) ==
  IF fs = <<>> THEN 1 ELSE Head(fs).probs[i + 1] * C22_Product(Tail(fs), i)

\* C22: whenever a graph whose factors are several priors on one discrete
\* variable was solved, the marginal of the variable is the element-wise
\* product of the factors' values divided by its sum (the values of a factor
\* need not sum to 1), and the most probable assignment is the lowest index
\* at which the product is largest; for the priors (0.1, 0.9) and (45, 5) the
\* two products are equal, the marginal is (1/2, 1/2) and the most probable
\* assignment is 0.
C22_MarginalIsNormalizedProduct ==
  (/\ dgraph.call = "optimize"
   /\ Len(dgraph.factors) >= 1
   /\ \A i \in 1..Len(dgraph.factors) :
        dgraph.factors[i].dk = dgraph.factors[1].dk) =>
    LET fs == dgraph.factors
        k == fs[1].dk
        P == [i \in 1..Card |-> C22_Product(fs, i - 1)]
        m == dgraph.result.marginalProbabilities[k]
    IN /\ \A i \in 1..Card : m[i][1] * SumSeq(P) = P[i] * m[i][2]
       /\ dgraph.result.optimize = [j \in {k} |-> ArgMax(P)]
       /\ (fs[1].probs = <<1, 9>> /\ Len(fs) = 2 /\ fs[2].probs = <<45, 5>>) =>
            /\ P[1] = P[2]
            /\ \A i \in 1..Card : 2 * m[i][1] = m[i][2]
            /\ dgraph.result.optimize[k] = 0

\* the graph of the test was solved: priors (0.1, 0.9) and (45, 5) on one
\* variable, most probable assignment 0
C22_Witness ==
  /\ dgraph.call = "optimize"
  /\ Len(dgraph.factors) = 2
  /\ dgraph.factors[1] = SmartDiscretePriorFactor("d1", <<1, 9>>)
  /\ dgraph.factors[2] = SmartDiscretePriorFactor("d1", <<45, 5>>)
  /\ dgraph.result.optimize["d1"] = 0

\* error of the hybrid factor h at continuous value x and assignment a
C23_Error(h, x, a) ==
  DCMixtureError(h, [k \in Range(h.keys) |-> x], [k \in {h.dk} |-> a])

\* C23: when the controller holds one hybrid factor and no other discrete
\* factor, and the discrete shadow has its continuous value frozen, the
\* discrete solve of update selects the component whose error (plus its log
\* normalizing term when unnormalized) is smallest at the frozen value: d = 1
\* (the broad component) far from the common mean, d = 0 (the narrow one)
\* once the frozen value is the mean.
C23_FrozenSolveSelectsLeastError ==
  [][(/\ pc = "solveDiscrete"
      /\ Len(heap) = 1
      /\ heap[1].kind = "dcd"
      /\ Range(heap[1].dcfactor.keys) \subseteq DOMAIN heap[1].continuousVals) =>
       LET h == heap[1].dcfactor
           x == heap[1].continuousVals[h.keys[1]]
       IN /\ pc' = "primeContinuous"
          /\ \A b \in 0..(Card - 1) :
               C23_Error(h, x, currDiscrete_'[h.dk]) <= C23_Error(h, x, b)
          /\ (h.factors[1].mu = h.factors[2].mu /\ x = MaxX) =>
               currDiscrete_'[h.dk] = 1
          /\ (h.factors[1].mu = h.factors[2].mu /\ x = h.factors[1].mu) =>
               currDiscrete_'[h.dk] = 0]_vars

\* C24: when class priors on one variable are added one per update (each is
\* then twice in dfg_), the class that calculateEstimate returns after an
\* update is 1 exactly when the product of the class-1 probabilities of all
\* priors added so far, each counted once, exceeds the product of their
\* class-0 probabilities, and 0 otherwise (a tie included).
C24_ClassFollowsProductOfPriors ==
  (/\ pc = "idle"
   /\ estimate.returned
   /\ Len(heap) >= 1
   /\ \A i \in 1..Len(heap) :
        /\ heap[i].kind = "prior" /\ heap[i].dk = "d1"
        /\ Cardinality({j \in 1..Len(dfg_) : dfg_[j] = i}) = 2) =>
    estimate.discrete =
      [k \in {"d1"} |->
         IF LogProduct(heap, EachOnce, "d1", 1) > LogProduct(heap, EachOnce, "d1", 0)
         THEN 1 ELSE 0]

\* three updates added (0.9, 0.1), (0.1, 0.9) and (0.1, 0.9): a tie after the
\* second one, and the estimate after the third one is class 1
C24_Witness ==
  /\ pc = "idle"
  /\ nUpdates = 3
  /\ Len(heap) = 3
  /\ Len(dfg_) = 6
  /\ heap[1].probs = <<4, 1>>
  /\ heap[2].probs = <<1, 4>>
  /\ heap[3].probs = <<1, 4>>
  /\ estimate.returned
  /\ estimate.discrete["d1"] = 1

\* C25: the affected-keys map handed to the optimizer has an entry exactly for
\* the indices of the optimizer's current factor list that hold a continuous
\* shadow, the entry being that shadow's continuous keys; a plain continuous
\* factor, a null slot and the factors added by this call (which get the
\* indices behind the current list) have no entry.
C25_AffectedKeysAreShadowSlots ==
  pc = "isamUpdate" =>
    LET fs == isam_.factors
        m == frame.newAffectedKeys
    IN /\ \A j \in 0..(Len(fs) - 1) : j \in DOMAIN m <=> fs[j + 1].kind = "dcc"
       /\ \A j \in DOMAIN m :
            /\ j < Len(fs)
            /\ m[j] = Range(fs[j + 1].dcfactor.keys)
       /\ \A i \in 1..Len(frame.combined) : (Len(fs) + i - 1) \notin DOMAIN m

\* the optimizer holds a plain factor and a shadow, the call adds another
\* shadow, and the map has the one entry of the shadow already held
C25_Witness ==
  /\ pc = "isamUpdate"
  /\ \E i \in 1..Len(isam_.factors) : isam_.factors[i].kind = "nl"
  /\ \E i \in 1..Len(isam_.factors) : isam_.factors[i].kind = "dcc"
  /\ \E i \in 1..Len(frame.combined) : frame.combined[i].kind = "dcc"
  /\ Cardinality(DOMAIN frame.newAffectedKeys) = 1

\* C26: a DCMixtureFactor over a discrete key of cardinality K holds exactly K
\* components, and for every assignment below K both error and linearize
\* return, using the component with the index of the assignment.
C26_AssignmentSelectsExistingComponent ==
  /\ mix.obj.family = "dc" => Len(mix.obj.self.factors) = mix.obj.self.card
  /\ mix.call = "error" =>
       LET h == mix.obj.self
           assignment == mix.arg.discreteVals[h.dk]
       IN /\ assignment < Len(h.factors)
          /\ mix.result.outcome = "returned"
          /\ mix.result.error =
               DCMixtureError(h, mix.arg.continuousVals, mix.arg.discreteVals)
          /\ mix.result.linearize.factor_ = h.factors[assignment + 1]

\* product of the values of the factors of a list without null slots at the
\* assignment v
RECURSIVE C27_Value(_, _)
C27_Value(fs, v) ==
  IF fs = <<>> THEN 1
  ELSE DiscretePriorFactor_value(Head(fs), v) * C27_Value(Tail(fs), v)

\* C27: CustomEliminateDiscrete skips null slots: the product table, the
\* separator factor and the conditional it returns are those of the same
\* graph with the null slots deleted, the product being the product of the
\* values of the factors that are there, and the keys of the conditional are
\* the frontal keys in the given order followed by the separator's keys.
C27_EliminateSkipsNullSlots ==
  dgraph.call = "CustomEliminateDiscrete" =>
    LET r == dgraph.result
        deleted == SelectSeq(dgraph.factors, LAMBDA f : f # Null)
        d == CustomEliminateDiscrete(deleted, dgraph.arg)
    IN /\ r.product = d.product
       /\ r.sum = d.sum
       /\ r.cond = d.cond
       /\ \A v \in Assignments(r.product.keys) :
            r.product.table[v] = C27_Value(deleted, v)
       /\ r.cond.keys = dgraph.arg \o r.sum.keys

\* a graph whose first slot is null and whose second slot holds a factor was
\* eliminated
C27_Witness ==
  /\ dgraph.call = "CustomEliminateDiscrete"
  /\ Len(dgraph.factors) = 2
  /\ dgraph.factors[1] = Null
  /\ dgraph.factors[2] # Null
  /\ dgraph.result.cout = 1
  /\ dgraph.result.product.keys = <<dgraph.factors[2].dk>>

\* C28: equals on a mixture factor of any of the four classes returns true
\* only if the two factors were made of the same components, the same
\* weights, the same normalized flag and the same continuous and discrete key
\* lists, and a.equals(b) and b.equals(a) give the same answer.
C28_EqualsComparesAllFields ==
  mix.call = "equals" =>
    LET a == mix.arg.a
        b == mix.arg.b
    IN /\ mix.result.ab =>
            /\ a.factors = b.factors
            /\ a.weights = b.weights
            /\ a.normalized = b.normalized
            /\ a.keys = b.keys
            /\ a.dk = b.dk /\ a.card = b.card
       /\ mix.result.ab = mix.result.ba

C30_DiscreteGuessPersists ==
  [][/\ DOMAIN currDiscrete_ \subseteq DOMAIN currDiscrete_'
     /\ pc = "solveDiscrete" =>
          DOMAIN frame.batch.initialGuessDiscrete \subseteq DOMAIN currDiscrete_']_vars

====
